---------------------------- MODULE Spec2Model ----------------------------
(***************************************************************************)
(* ZigChain transfer monitor: the ingestion coordinator (TransferMonitor,  *)
(* monitor.ts), its dedup ledger and enrichment lookup, and the streaming  *)
(* connection manager (ZigWebSocketClient, websocket.ts).                  *)
(*                                                                         *)
(* JavaScript strings are modelled as sequences of one-character strings,  *)
(* so that trim, toLowerCase, endsWith and the digit tests are computed.   *)
(* A value that may be null is a sequence of length 0 (null) or 1.         *)
(***************************************************************************)
EXTENDS Integers, Sequences, FiniteSets, TLC

(***************************************************************************)
(* Bounds of the model.                                                    *)
(***************************************************************************)
\* number of frames handed to handleRawMessage in one behaviour
MaxFrames == 2
\* cfg.maxSeenTxHashes ranges over 0 .. MaxCap
MaxCap == 1
\* number of sockets the client creates in one behaviour
MaxSockets == 2
\* number of frames the sockets receive in one behaviour
MaxMessages == 2
\* number of heartbeat periods that pass in one behaviour
MaxTicks == 4
\* number of error events in one behaviour
MaxErrors == 1
\* number of sockets the client creates in one behaviour of the backoff scenario
MaxReconnects == 7

(***************************************************************************)
(* Strings.                                                                *)
(***************************************************************************)
Digits == <<"0", "1", "2", "3", "4", "5", "6", "7", "8", "9">>

UpperCase == <<"A", "B", "C", "D", "E", "F", "G", "H", "I", "J", "K", "L", "M", "N", "O", "P", "Q", "R", "S", "T", "U", "V", "W", "X", "Y", "Z">>

LowerCase == <<"a", "b", "c", "d", "e", "f", "g", "h", "i", "j", "k", "l", "m", "n", "o", "p", "q", "r", "s", "t", "u", "v", "w", "x", "y", "z">>

Range(s) == {s[k] : k \in DOMAIN s}

IsDigit(c) == c \in Range(Digits)

DigitValue(c) == (CHOOSE k \in DOMAIN Digits : Digits[k] = c) - 1

LowerChar(c) == IF c \in Range(UpperCase) THEN LowerCase[CHOOSE k \in DOMAIN UpperCase : UpperCase[k] = c] ELSE c

\* String.prototype.toLowerCase
ToLowerCase(s) == [k \in DOMAIN s |-> LowerChar(s[k])]

IsSpace(c) == c = " "

Min(S) == CHOOSE x \in S : \A y \in S : x <= y

Max(S) == CHOOSE x \in S : \A y \in S : y <= x

\* String.prototype.trim
Trim(s) ==
    LET kept == {k \in DOMAIN s : ~IsSpace(s[k])}
    IN  IF kept = {} THEN <<>> ELSE SubSeq(s, Min(kept), Max(kept))

\* /^\d+$/.test(s)
AllDigits(s) == s # <<>> /\ \A k \in DOMAIN s : IsDigit(s[k])

\* String.prototype.endsWith
EndsWith(s, suffix) == Len(suffix) <= Len(s) /\ SubSeq(s, Len(s) - Len(suffix) + 1, Len(s)) = suffix

RECURSIVE ParseDigits(_)
\* BigInt(s) of a string of decimal digits
ParseDigits(s) == IF s = <<>> THEN 0 ELSE 10 * ParseDigits(SubSeq(s, 1, Len(s) - 1)) + DigitValue(s[Len(s)])

(***************************************************************************)
(* Configuration (config.ts).                                              *)
(***************************************************************************)
uzig == <<"u", "z", "i", "g">>

ZIG_DECIMALS == 1000000

\* MIN_AMOUNT_ZIG = 40, scaled to base units
minAmountUzig == 40 * ZIG_DECIMALS

WalletA == <<"z", "i", "g", "1", "a">>

WalletB == <<"z", "i", "g", "1", "b">>

\* cfg.monitoredWallets: the watchlist
monitoredWallets == {WalletA}


(***************************************************************************)
(* Event normalisation (monitor.ts).                                       *)
(***************************************************************************)
\* a || b on strings: the empty string is falsy
OrElse(a, b) == IF a = <<>> THEN b ELSE a

\* parseAmountToUzig: <<>> is null, <<n>> the parsed amount
parseAmountToUzig(amountRaw, denom) ==
    IF AllDigits(amountRaw) THEN <<ParseDigits(amountRaw)>>
    ELSE LET lower == ToLowerCase(amountRaw)
             numericPart == SubSeq(lower, 1, Len(lower) - Len(denom))
         IN  IF denom # <<>> /\ EndsWith(lower, denom) /\ AllDigits(numericPart)
             THEN <<ParseDigits(numericPart)>>
             ELSE <<>>

RECURSIVE ToDigits(_)
\* n.toString() for a bigint n >= 0
ToDigits(n) == IF n < 10 THEN <<Digits[n + 1]>> ELSE ToDigits(n \div 10) \o <<Digits[(n % 10) + 1]>>

RECURSIVE addThousandsSeparators(_)
\* addThousandsSeparators: a comma before every group of three digits that
\* ends the string
addThousandsSeparators(numStr) ==
    IF Len(numStr) <= 3 THEN numStr
    ELSE addThousandsSeparators(SubSeq(numStr, 1, Len(numStr) - 3)) \o <<",">> \o SubSeq(numStr, Len(numStr) - 2, Len(numStr))

\* s.padStart(6, "0")
PadStart6(s) == [k \in 1 .. (6 - Len(s)) |-> "0"] \o s

\* s.replace(/0+$/, "")
StripTrailingZeros(s) == SubSeq(s, 1, Max({0} \cup {k \in DOMAIN s : s[k] # "0"}))

\* formatZigAmount without the test for a zero fraction
formatZigAmountKeepsFraction(amountUzig) ==
    addThousandsSeparators(ToDigits(amountUzig \div ZIG_DECIMALS)) \o <<".">> \o PadStart6(ToDigits(amountUzig % ZIG_DECIMALS))

\* formatZigAmount
formatZigAmount(amountUzig) ==
    LET whole == amountUzig \div ZIG_DECIMALS
        fraction == amountUzig % ZIG_DECIMALS
        wholeStr == addThousandsSeparators(ToDigits(whole))
    IN  IF fraction = 0 THEN wholeStr
        ELSE wholeStr \o <<".">> \o StripTrailingZeros(PadStart6(ToDigits(fraction)))

\* normalizeTransfer rejecting negative amounts only: amountUzig < 0n
normalizeTransferAllowsZero(event) ==
    LET denom == ToLowerCase(Trim(event.denom))
        amountUzig == parseAmountToUzig(Trim(event.amount), denom)
    IN  IF Trim(event.sender) = <<>> \/ Trim(event.recipient) = <<>> \/ denom = <<>> \/ Trim(event.txhash) = <<>> THEN <<>>
        ELSE IF amountUzig = <<>> \/ amountUzig[1] < 0 THEN <<>>
        ELSE <<[sender |-> Trim(event.sender), recipient |-> Trim(event.recipient), amountUzig |-> amountUzig[1], denom |-> denom, txhash |-> Trim(event.txhash)]>>

\* normalizeTransfer: <<>> is null, <<t>> the NormalizedTransfer
normalizeTransfer(event) ==
    LET sender == Trim(event.sender)
        recipient == Trim(event.recipient)
        denom == ToLowerCase(Trim(event.denom))
        txhash == Trim(event.txhash)
        amountUzig == parseAmountToUzig(Trim(event.amount), denom)
    IN  IF sender = <<>> \/ recipient = <<>> \/ denom = <<>> \/ txhash = <<>> THEN <<>>
        ELSE IF amountUzig = <<>> \/ amountUzig[1] <= 0 THEN <<>>
        ELSE <<[sender |-> sender, recipient |-> recipient, amountUzig |-> amountUzig[1], denom |-> denom, txhash |-> txhash]>>

\* isTxSendEvent: the object has the five fields of a TxSendEvent
isTxSendEvent(value) == {"sender", "recipient", "amount", "denom", "txhash"} \subseteq DOMAIN value

RECURSIVE SelectEvents(_)
SelectEvents(items) ==
    IF items = <<>> THEN <<>>
    ELSE (IF isTxSendEvent(Head(items)) THEN <<Head(items)>> ELSE <<>>) \o SelectEvents(Tail(items))

\* a[i] || a[0] || "" on an array of strings
AtOrFirst(a, i) == IF i <= Len(a) /\ a[i] # <<>> THEN a[i] ELSE IF a # <<>> THEN a[1] ELSE <<>>

\* firstArrayValue(a) || firstArrayValue(b): the first element of the first
\* array that has a non-empty one; <<>> is null
firstArrayValue(a) == IF a = <<>> THEN <<>> ELSE a[1]

\* the length of the run of digits s starts with: (\d+), greedy
DigitPrefixLen(s) == Max({k \in 0 .. Len(s) : \A j \in 1 .. k : IsDigit(s[j])})

IsLowerAlnum(c) == IsDigit(c) \/ c \in Range(LowerCase)

\* [a-z0-9/._-], the denom characters of parseCoins
IsCoinDenomChar(c) == IsLowerAlnum(c) \/ c \in {"/", ".", "_", "-"}

\* the length of the run of denom characters s starts with
CoinDenomPrefixLen(s) == Max({k \in 0 .. Len(s) : \A j \in 1 .. k : IsCoinDenomChar(s[j])})

\* amount.match(/^(\d+)([a-z0-9]+)$/): <<>> when there is no match, otherwise
\* <<[amount, denom]>>; the digits are greedy and give back their last one
\* when nothing follows them
MatchAmountDenom(amount) ==
    LET d == DigitPrefixLen(amount)
    IN  IF d = 0 \/ Len(amount) < 2 \/ \E k \in DOMAIN amount : ~IsLowerAlnum(amount[k]) THEN <<>>
        ELSE IF d = Len(amount) THEN <<[amount |-> SubSeq(amount, 1, d - 1), denom |-> SubSeq(amount, d, d)]>>
        ELSE <<[amount |-> SubSeq(amount, 1, d), denom |-> SubSeq(amount, d + 1, Len(amount))]>>

RECURSIVE CosmosTransfers(_, _, _, _, _, _)
\* the loop of extractFromCosmosEventStyle, from index i (from 1) to count
CosmosTransfers(senders, recipients, amounts, txhash, i, count) ==
    IF i > count THEN <<>>
    ELSE LET sender == Trim(AtOrFirst(senders, i))
             recipient == Trim(AtOrFirst(recipients, i))
             amount == Trim(AtOrFirst(amounts, i))
             match == MatchAmountDenom(ToLowerCase(amount))
             rest == CosmosTransfers(senders, recipients, amounts, txhash, i + 1, count)
         IN  IF sender = <<>> \/ recipient = <<>> \/ amount = <<>> \/ match = <<>> THEN rest
             ELSE <<[sender |-> sender, recipient |-> recipient, amount |-> match[1].amount, denom |-> match[1].denom, txhash |-> txhash]>> \o rest

\* extractFromCosmosEventStyle: result.events as a map of parallel arrays
extractFromCosmosEventStyle(payload) ==
    LET events == payload.events
        senders == events.sender
        recipients == events.recipient
        amounts == events.amount
        txhash == OrElse(firstArrayValue(events.hash), firstArrayValue(events.hashes))
    IN  IF txhash = <<>> \/ senders = <<>> \/ recipients = <<>> \/ amounts = <<>> THEN <<>>
        ELSE CosmosTransfers(senders, recipients, amounts, txhash, 1, Max({Len(senders), Len(recipients), Len(amounts)}))

\* extractTxHash: root.txhash, then the hash arrays of the result.events map,
\* then result.data.value.TxResult.result.hash; <<>> is null
extractTxHash(payload) ==
    LET eventHash == OrElse(firstArrayValue(payload.events.hash), firstArrayValue(payload.events.hashes))
    IN  IF payload.txhash # <<>> THEN payload.txhash
        ELSE IF eventHash # <<>> THEN eventHash
        ELSE payload.txResult.hash

RECURSIVE ParseCoinsFrom(_, _)
\* the matches of /(\d+)([a-z0-9/._-]+)/g in s from position p on
ParseCoinsFrom(s, p) ==
    IF p > Len(s) THEN <<>>
    ELSE LET tail == SubSeq(s, p, Len(s))
             d == DigitPrefixLen(tail)
             after == SubSeq(tail, d + 1, Len(tail))
             n == CoinDenomPrefixLen(after)
         IN  IF d = 0 THEN ParseCoinsFrom(s, p + 1)
             ELSE IF n > 0 THEN <<[amount |-> SubSeq(tail, 1, d), denom |-> SubSeq(after, 1, n)]>> \o ParseCoinsFrom(s, p + d + n)
             ELSE IF d >= 2 THEN <<[amount |-> SubSeq(tail, 1, d - 1), denom |-> SubSeq(tail, d, d)]>> \o ParseCoinsFrom(s, p + d)
             ELSE ParseCoinsFrom(s, p + 1)

\* parseCoins
parseCoins(raw) == ParseCoinsFrom(ToLowerCase(raw), 1)

\* the printable ASCII characters, from code 32 to code 126 (code 96, the
\* grave accent, by its name)
Ascii ==
    <<" ", "!", "\"", "#", "$", "%", "&", "'", "(", ")", "*", "+", ",", "-", ".", "/",
      "0", "1", "2", "3", "4", "5", "6", "7", "8", "9", ":", ";", "<", "=", ">", "?",
      "@", "A", "B", "C", "D", "E", "F", "G", "H", "I", "J", "K", "L", "M", "N", "O",
      "P", "Q", "R", "S", "T", "U", "V", "W", "X", "Y", "Z", "[", "\\", "]", "^", "_",
      "grave", "a", "b", "c", "d", "e", "f", "g", "h", "i", "j", "k", "l", "m", "n", "o",
      "p", "q", "r", "s", "t", "u", "v", "w", "x", "y", "z", "{", "|", "}", "~">>

\* any character outside the printable range
NonPrintable == "<np>"

CharOfByte(b) == IF b >= 32 /\ b <= 126 THEN Ascii[b - 31] ELSE NonPrintable

Base64Alphabet == UpperCase \o LowerCase \o Digits \o <<"+", "/">>

Base64Value(c) == (CHOOSE k \in DOMAIN Base64Alphabet : Base64Alphabet[k] = c) - 1

RECURSIVE Base64Bytes(_)
\* the bytes encoded by a sequence of 6-bit values
Base64Bytes(v) ==
    IF Len(v) < 2 THEN <<>>
    ELSE LET b1 == v[1] * 4 + (v[2] \div 16)
         IN  IF Len(v) = 2 THEN <<b1>>
             ELSE LET b2 == (v[2] % 16) * 16 + (v[3] \div 4)
                  IN  IF Len(v) = 3 THEN <<b1, b2>>
                      ELSE <<b1, b2, (v[3] % 4) * 64 + v[4]>> \o Base64Bytes(SubSeq(v, 5, Len(v)))

\* Buffer.from(s, "base64").toString("utf-8") for s over the base64 alphabet
\* with "=" as trailing padding only
Base64Decode(s) ==
    LET body == SubSeq(s, 1, Max({k \in 0 .. Len(s) : \A j \in 1 .. k : s[j] # "="}))
        bytes == Base64Bytes([k \in DOMAIN body |-> Base64Value(body[k])])
    IN  [k \in DOMAIN bytes |-> CharOfByte(bytes[k])]

IsAlnum(c) == IsDigit(c) \/ c \in Range(LowerCase) \/ c \in Range(UpperCase)

\* decodeMaybeBase64
decodeMaybeBase64(input) ==
    LET trimmed == Trim(input)
        decoded == Trim(Base64Decode(trimmed))
    IN  IF trimmed = <<>> THEN <<>>
        ELSE IF \A k \in DOMAIN trimmed : IsAlnum(trimmed[k]) \/ trimmed[k] \in {"/", ".", "_", ":", "-"} THEN trimmed
        ELSE IF (\E k \in DOMAIN trimmed : ~(IsAlnum(trimmed[k]) \/ trimmed[k] \in {"+", "/", "="})) \/ Len(trimmed) % 4 # 0 THEN trimmed
        ELSE IF decoded = <<>> THEN trimmed
        ELSE IF \A k \in DOMAIN decoded : decoded[k] \in Range(Ascii) THEN decoded ELSE trimmed

KeySender == <<"s", "e", "n", "d", "e", "r">>

KeyRecipient == <<"r", "e", "c", "i", "p", "i", "e", "n", "t">>

KeyAmount == <<"a", "m", "o", "u", "n", "t">>

TypeTransfer == <<"t", "r", "a", "n", "s", "f", "e", "r">>

RECURSIVE AttrValues(_, _)
\* the decoded values of the attributes whose decoded key is key, in order
AttrValues(attrs, key) ==
    IF attrs = <<>> THEN <<>>
    ELSE (IF decodeMaybeBase64(Head(attrs).key) = key THEN <<decodeMaybeBase64(Head(attrs).value)>> ELSE <<>>) \o AttrValues(Tail(attrs), key)

RECURSIVE CoinTransfers(_, _, _, _)
CoinTransfers(coins, sender, recipient, txHash) ==
    IF coins = <<>> THEN <<>>
    ELSE <<[sender |-> sender, recipient |-> recipient, amount |-> Head(coins).amount, denom |-> Head(coins).denom, txhash |-> txHash]>> \o CoinTransfers(Tail(coins), sender, recipient, txHash)

RECURSIVE EventTransfers(_, _, _, _, _, _)
\* the index loop over one transfer event, from index i (from 1) to count
EventTransfers(senders, recipients, amounts, txHash, i, count) ==
    IF i > count THEN <<>>
    ELSE LET sender == Trim(AtOrFirst(senders, i))
             recipient == Trim(AtOrFirst(recipients, i))
             amountStr == ToLowerCase(Trim(AtOrFirst(amounts, i)))
             rest == EventTransfers(senders, recipients, amounts, txHash, i + 1, count)
         IN  IF sender = <<>> \/ recipient = <<>> \/ amountStr = <<>> THEN rest
             ELSE CoinTransfers(parseCoins(amountStr), sender, recipient, txHash) \o rest

RECURSIVE TendermintTransfers(_, _)
\* the loop over allEvents
TendermintTransfers(allEvents, txHash) ==
    IF allEvents = <<>> THEN <<>>
    ELSE LET event == Head(allEvents)
             senders == AttrValues(event.attributes, KeySender)
             recipients == AttrValues(event.attributes, KeyRecipient)
             amounts == AttrValues(event.attributes, KeyAmount)
             rest == TendermintTransfers(Tail(allEvents), txHash)
         IN  IF ToLowerCase(event.type) # TypeTransfer THEN rest
             ELSE EventTransfers(senders, recipients, amounts, txHash, 1, Max({Len(senders), Len(recipients), Len(amounts)})) \o rest

\* extractFromTendermintEventArray: the events of TxResult.result.events, then
\* those of result.events when it is an array
extractFromTendermintEventArray(payload) ==
    LET txHash == extractTxHash(payload)
    IN  IF txHash = <<>> THEN <<>>
        ELSE TendermintTransfers(payload.txResult.events \o payload.eventArray, txHash)

MsgExecuteContract == "/cosmwasm.wasm.v1.MsgExecuteContract"

MsgSend == "/cosmos.bank.v1beta1.MsgSend"

RECURSIVE FundTransfers(_, _, _, _)
\* one transfer per fund or coin that has a denom and an amount
FundTransfers(funds, sender, recipient, txHash) ==
    IF funds = <<>> THEN <<>>
    ELSE LET denom == ToLowerCase(Trim(Head(funds).denom))
             amount == Trim(Head(funds).amount)
             rest == FundTransfers(Tail(funds), sender, recipient, txHash)
         IN  IF denom = <<>> \/ amount = <<>> THEN rest
             ELSE <<[sender |-> sender, recipient |-> recipient, amount |-> amount, denom |-> denom, txhash |-> txHash]>> \o rest

RECURSIVE MessageTransfers(_, _)
\* the visitor of extractFromMessageBodies over the objects of the payload
MessageTransfers(items, txHash) ==
    IF items = <<>> THEN <<>>
    ELSE LET obj == Head(items)
             rest == MessageTransfers(Tail(items), txHash)
         IN  IF "atType" \notin DOMAIN obj THEN rest
             ELSE IF obj.atType = MsgExecuteContract /\ {"sender", "contract", "funds"} \subseteq DOMAIN obj
             THEN FundTransfers(obj.funds, obj.sender, obj.contract, txHash) \o rest
             ELSE IF obj.atType = MsgSend /\ {"from_address", "to_address", "amount"} \subseteq DOMAIN obj
             THEN FundTransfers(obj.amount, obj.from_address, obj.to_address, txHash) \o rest
             ELSE rest

\* extractFromMessageBodies
extractFromMessageBodies(payload) ==
    LET txHash == extractTxHash(payload)
    IN  IF txHash = <<>> THEN <<>> ELSE MessageTransfers(payload.items, txHash)

\* the cascade with every strategy contributing: the results concatenated
extractTxSendEventsMerged(payload) ==
    SelectEvents(payload.items) \o extractFromCosmosEventStyle(payload) \o extractFromTendermintEventArray(payload) \o extractFromMessageBodies(payload)

\* extractTxSendEvents: the direct scan (walk the payload and collect the
\* objects shaped like a TxSendEvent, in visiting order), then the other
\* strategies, each only when those before it found nothing
extractTxSendEvents(payload) ==
    LET found == SelectEvents(payload.items)
        cosmosStyle == extractFromCosmosEventStyle(payload)
        tendermintEvents == extractFromTendermintEventArray(payload)
    IN  IF found # <<>> THEN found
        ELSE IF cosmosStyle # <<>> THEN cosmosStyle
        ELSE IF tendermintEvents # <<>> THEN tendermintEvents
        ELSE extractFromMessageBodies(payload)

\* index of the bucket of txhash in buckets, 0 when there is none (Map.get)
BucketIndex(buckets, txhash) ==
    IF \E k \in DOMAIN buckets : buckets[k].txHash = txhash
    THEN CHOOSE k \in DOMAIN buckets : buckets[k].txHash = txhash
    ELSE 0

RECURSIVE Bucketize(_, _, _, _)
\* the bucketing loop of handleRawMessage: txBuckets keeps insertion order;
\* late is the history flag of a bucket (see FrameIsLate)
Bucketize(events, seen, buckets, lateHashes) ==
    IF events = <<>> THEN buckets
    ELSE LET normalized == normalizeTransfer(Head(events))
             rest == Tail(events)
         IN  IF normalized = <<>> \/ normalized[1].txhash \in seen
             THEN Bucketize(rest, seen, buckets, lateHashes)
             ELSE LET t == normalized[1]
                      k == BucketIndex(buckets, t.txhash)
                  IN  IF k # 0
                      THEN Bucketize(rest, seen, [buckets EXCEPT ![k].transfers = Append(@, t)], lateHashes)
                      ELSE Bucketize(rest, seen, Append(buckets, [txHash |-> t.txhash, transfers |-> <<t>>, late |-> t.txhash \in lateHashes]), lateHashes)

(***************************************************************************)
(* Enrichment context extraction (monitor.ts).                             *)
(***************************************************************************)
wasm == <<"w", "a", "s", "m">>

KeyContractAddress == <<"_", "c", "o", "n", "t", "r", "a", "c", "t", "_", "a", "d", "d", "r", "e", "s", "s">>

KeyAction == <<"a", "c", "t", "i", "o", "n">>

\* values.get(key) || null, of the Map the attribute loop fills: a later
\* attribute of the same key overwrites an earlier one; blank keys and values
\* are skipped
AttrValue(attrs, key) ==
    LET hits == {k \in DOMAIN attrs : Trim(attrs[k].key) = key /\ Trim(attrs[k].value) # <<>>}
    IN  IF hits = {} THEN <<>> ELSE Trim(attrs[Max(hits)].value)

\* the first event of type wasm gives the context; <<>> is null. Of the six
\* attribute fields, contractAddress and action are kept: offerAsset, askAsset,
\* offerAmount and returnAmount are read and forwarded exactly as action is.
extractWasmContextFromEventArray(eventsRaw) ==
    LET wasmAt == {k \in DOMAIN eventsRaw : ToLowerCase(eventsRaw[k].type) = wasm}
    IN  IF wasmAt = {} THEN <<>>
        ELSE <<[eventType |-> wasm,
                contractAddress |-> AttrValue(eventsRaw[Min(wasmAt)].attributes, KeyContractAddress),
                action |-> AttrValue(eventsRaw[Min(wasmAt)].attributes, KeyAction)]>>

\* the context of the first log entry that has one
extractWasmContextFromLogs(logs) ==
    LET hits == {k \in DOMAIN logs : extractWasmContextFromEventArray(logs[k].events) # <<>>}
    IN  IF hits = {} THEN <<>> ELSE extractWasmContextFromEventArray(logs[Min(hits)].events)

extractTxContextFromLcd(payload) ==
    LET fromLogs == extractWasmContextFromLogs(payload.logs)
    IN  IF fromLogs # <<>> THEN fromLogs ELSE extractWasmContextFromEventArray(payload.events)


(***************************************************************************)
(* Inputs: the frames the node sends and the answers of the LCD endpoint.  *)
(***************************************************************************)
H1 == <<"H", "1">>

H2 == <<"H", "2">>

H3 == <<"H", "3">>

Amount50 == <<"5", "0", "0", "0", "0", "0", "0", "0">>

Amount60uzig == <<"6", "0", "0", "0", "0", "0", "0", "0", "U", "Z", "I", "G">>

Amount1 == <<"1">>

\* the configured minimum, in digits
Amount40 == <<"4", "0", "0", "0", "0", "0", "0", "0">>

Uatom == <<"u", "a", "t", "o", "m">>

TxSend(from, to, amount, hash) == [sender |-> from, recipient |-> to, amount |-> amount, denom |-> uzig, txhash |-> hash]

\* a subscription acknowledgement: no transfer in it
AckItem == [query |-> <<"t", "m">>]

\* result.events without any of the keys the strategies read
NoEvents == [sender |-> <<>>, recipient |-> <<>>, amount |-> <<>>, hash |-> <<>>, hashes |-> <<>>]

\* no result.data.value.TxResult.result
NoTxResult == [hash |-> <<>>, events |-> <<>>]

\* a parsed payload, by the places the extraction reads: items are the objects
\* walk() visits, in visiting order; txhash is root.txhash; events is
\* result.events when it is a map (its arrays by key: transfer.sender,
\* transfer.recipient, transfer.amount, tx.hash, tx.hashes); eventArray is
\* result.events when it is an array; resultTxHash is result["tx.hash"];
\* txResult is result.data.value.TxResult.result
Frame(shape, items) ==
    [json |-> TRUE, shape |-> shape, items |-> items, txhash |-> <<>>, events |-> NoEvents, eventArray |-> <<>>, resultTxHash |-> <<>>, txResult |-> NoTxResult]

\* the frames of the model: not JSON; an ack; an unrecognised payload;
\* transfers that alert (watched sender, watched recipient, both, exactly the
\* minimum) and that do not (unwatched, below the minimum, invalid, another
\* denom), in one-hash and two-hash frames
Frames ==
    { [Frame("other", <<>>) EXCEPT !.json = FALSE],
      Frame("ack", <<AckItem>>),
      Frame("other", <<>>),
      Frame("other", <<TxSend(WalletA, WalletB, Amount50, H1)>>),
      Frame("other", <<TxSend(WalletB, WalletA, Amount60uzig, H2), TxSend(WalletB, WalletB, Amount50, H3)>>),
      Frame("other", <<TxSend(WalletA, WalletB, Amount1, H1), AckItem, TxSend(<<" ">>, WalletA, Amount50, H2), TxSend(WalletA, WalletA, Amount50, H1),
                       [TxSend(WalletA, WalletB, Amount50, H1) EXCEPT !.denom = Uatom], TxSend(WalletB, WalletA, Amount40, H1)>>) }

Amount50uzig == Amount50 \o uzig

\* "zig1a" in base64
EncodedWalletA == <<"e", "m", "l", "n", "M", "W", "E", "=">>

\* a bank send of 50000000 uzig from the watched wallet, as a message body
MsgSendBody == [atType |-> MsgSend, from_address |-> WalletA, to_address |-> WalletB, amount |-> <<[denom |-> uzig, amount |-> Amount50]>>]

\* a contract execution funded by the other wallet: one fund without a denom
MsgExecuteBody ==
    [atType |-> MsgExecuteContract, sender |-> WalletB, contract |-> WalletA,
     funds |-> <<[denom |-> <<>>, amount |-> Amount1], [denom |-> <<"U", "Z", "I", "G">>, amount |-> Amount50]>>]

\* a tagged transfer event: the sender in base64, two coins in the amount
TaggedTransfer ==
    [type |-> <<"T", "r", "a", "n", "s", "f", "e", "r">>,
     attributes |-> <<[key |-> KeySender, value |-> EncodedWalletA], [key |-> KeyRecipient, value |-> WalletB],
                      [key |-> KeyAmount, value |-> Amount50uzig \o <<",", "1", "x">>]>>]

\* result.events of the scenario frame: the three transfer arrays, no hash key
ScenarioEvents == [NoEvents EXCEPT !.sender = <<WalletA>>, !.recipient = <<WalletB>>, !.amount = <<Amount50uzig>>]

\* the scenario frame: {"result":{"events":{"transfer.sender":["A"],
\* "transfer.recipient":["B"],"transfer.amount":["50000000uzig"]},
\* "tx.hash":["H1"]}}, the hash array beside events
ScenarioFrame == [Frame("other", <<>>) EXCEPT !.events = ScenarioEvents, !.resultTxHash = <<H1>>]

\* the same transfer with the hash array inside events
CosmosFrame == [Frame("other", <<>>) EXCEPT !.events = [ScenarioEvents EXCEPT !.hash = <<H1>>]]

\* the shapes of result: nothing the strategies read; the scenario's; the hash
\* inside the events map; two senders for one recipient, an amount without a
\* denom, the hash under tx.hashes; an events map that holds the hash only
ResultShapes ==
    { [events |-> NoEvents, resultTxHash |-> <<>>],
      [events |-> ScenarioEvents, resultTxHash |-> <<H1>>],
      [events |-> CosmosFrame.events, resultTxHash |-> <<>>],
      [events |-> [NoEvents EXCEPT !.sender = <<WalletB, WalletA>>, !.recipient = <<WalletA>>, !.amount = <<Amount60uzig, <<"7">>>>, !.hashes = <<H2>>], resultTxHash |-> <<>>],
      [events |-> [NoEvents EXCEPT !.hash = <<H3>>], resultTxHash |-> <<>>] }

\* the objects a walk finds: none, a TxSendEvent, message bodies, and
\* candidates that fail validation (amount zero, amount with another denom,
\* blank denom) around one that passes
ItemShapes ==
    { <<>>, <<TxSend(WalletB, WalletA, Amount50, H3)>>, <<MsgSendBody>>, <<AckItem, MsgExecuteBody, MsgSendBody>>,
      <<TxSend(WalletA, WalletB, <<"0">>, H1), TxSend(WalletA, WalletB, Amount50 \o Uatom, H1), [TxSend(WalletA, WalletB, Amount50, H1) EXCEPT !.denom = <<" ">>],
        TxSend(WalletA, WalletB, <<" ">> \o Amount60uzig, <<" ">> \o H1), TxSend(WalletB, WalletA, <<"0", "u", "z", "i", "g">>, H2)>> }

\* TxResult.result: absent, with hash and events, with events only
TxResultShapes == {NoTxResult, [hash |-> H2, events |-> <<[type |-> wasm, attributes |-> <<>>], TaggedTransfer>>], [hash |-> <<>>, events |-> <<TaggedTransfer>>]}

\* the payloads given to the extraction: every combination of the shapes
\* above, with and without root.txhash, and one whose result.events is an
\* array of tagged events
ExtractFrames ==
    { [Frame("other", items) EXCEPT !.txhash = txhash, !.events = result.events, !.resultTxHash = result.resultTxHash, !.txResult = txResult] :
        items \in ItemShapes, txhash \in {<<>>, H1}, result \in ResultShapes, txResult \in TxResultShapes }
    \cup { [Frame("other", <<>>) EXCEPT !.txhash = H1, !.eventArray = <<TaggedTransfer>>] }

AllHashes == {H1, H2, H3}

ContractC == <<"z", "i", "g", "1", "c">>

Swap == <<"s", "w", "a", "p">>

WasmEvent == [type |-> <<"W", "a", "s", "m">>, attributes |-> <<[key |-> KeyContractAddress, value |-> ContractC], [key |-> KeyAction, value |-> Swap]>>]

TransferEvent == [type |-> <<"t", "r", "a", "n", "s", "f", "e", "r">>, attributes |-> <<>>]

\* the JSON bodies of successful LCD responses: one with a wasm event in its
\* logs, one without any wasm event
LcdPayloads ==
    { [logs |-> <<[events |-> <<TransferEvent, WasmEvent>>]>>, events |-> <<>>],
      [logs |-> <<[events |-> <<TransferEvent>>]>>, events |-> <<TransferEvent>>] }

\* each body with the context extractTxContextFromLcd finds in it
LcdBodies == {[payload |-> payload, context |-> extractTxContextFromLcd(payload)] : payload \in LcdPayloads}

(***************************************************************************)
(* The dedup ledger.                                                       *)
(***************************************************************************)
\* markSeen evicting one call late: the comparison off by one
markSeenOffByOne(ledger, txHash, cap) ==
    LET order == Append(ledger.order, txHash)
        seen == ledger.seen \cup {txHash}
        oldest == Head(order)
    IN  IF Len(order) > cap + 1
        THEN [seen |-> IF oldest # <<>> THEN seen \ {oldest} ELSE seen, order |-> Tail(order)]
        ELSE [seen |-> seen, order |-> order]

\* markSeen evicting the newest entry: pop() in place of shift()
markSeenDropsNewest(ledger, txHash, cap) ==
    LET order == Append(ledger.order, txHash)
        seen == ledger.seen \cup {txHash}
    IN  IF Len(order) > cap
        THEN [seen |-> seen \ {txHash}, order |-> ledger.order]
        ELSE [seen |-> seen, order |-> order]

\* markSeen on the ledger [seen, order] with capacity cap
markSeen(ledger, txHash, cap) ==
    LET order == Append(ledger.order, txHash)
        seen == ledger.seen \cup {txHash}
        oldest == Head(order)
    IN  IF Len(order) > cap
        THEN [seen |-> IF oldest # <<>> THEN seen \ {oldest} ELSE seen, order |-> Tail(order)]
        ELSE [seen |-> seen, order |-> order]

(***************************************************************************)
(* State of one TransferMonitor and of the handleRawMessage invocations    *)
(* running on it. The event loop runs one callback at a time: an action is *)
(* the code an invocation executes from one suspension (an await that      *)
(* waits for the network or a timer) to the next.                          *)
(***************************************************************************)
VARIABLES
    maxSeenTxHashes,       \* cfg.maxSeenTxHashes
    seenTxHashes,          \* Set<string>
    txOrder,               \* string[]
    txContextCache,        \* Map<string, TxContext | null>, as a set of entries
    nonEventMessageCount,
    inv,                   \* the handleRawMessage invocations, by arrival number
    nframes,               \* frames handed to handleRawMessage so far
    notifierCalls,         \* the calls of notifier.sendLargeTransferAlert
    markLog,               \* history: the markSeen calls, in order
    completedAt,           \* history: Len(markLog) when a frame that processed the hash last returned
    evicted,               \* history: hashes shifted out of txOrder
    ctxOutcome,            \* history: the outcome of the first completed getTxContext per hash
    extraction,            \* history: per invocation, the parsed payload, what extractTxSendEvents returned for it and the buckets made of it
    alertsSent             \* history: number of calls of notifier.sendLargeTransferAlert

monitorVars == <<maxSeenTxHashes, seenTxHashes, txOrder, txContextCache, nonEventMessageCount, inv, nframes, notifierCalls, markLog, completedAt, evicted, ctxOutcome, extraction, alertsSent>>

(***************************************************************************)
(* State of the socket client (websocket.ts).                              *)
(***************************************************************************)
VARIABLES
    ws,                    \* this.ws: 0 is null, otherwise the socket
    readyState,            \* readyState of every socket; "NONE" before new WebSocket
    reconnectAttempts,
    reconnectTimer,        \* 0 is null, otherwise the delay of the pending timeout
    heartbeatTimer,        \* TRUE while the interval is set
    lastPongAt,
    now,                   \* Date.now()
    intentionalClose,
    subscriptionIndex,     \* index into subscriptionQueries, from 0
    subscriptionId,
    subscriptionConfirmed,
    sent,                  \* history: the subscribe requests sent
    pings,                 \* history: number of ping frames sent
    delivered,             \* history: the frames handed to options.onMessage
    errorsReported,        \* history: number of calls of options.onError
    received,              \* history: the frames the sockets emitted as "message"
    opened,                \* history: the sockets that have emitted "open"
    scheduledSinceOpen,    \* history: reconnects scheduled since the last open event
    socketLimit,           \* the number of sockets the behaviour may create
    closedByUser           \* history: close() was called and connect() has not been called since

clientVars == <<ws, readyState, reconnectAttempts, reconnectTimer, heartbeatTimer, lastPongAt, now, intentionalClose, subscriptionIndex, subscriptionId, subscriptionConfirmed, sent, pings, delivered, errorsReported, received, opened, scheduledSinceOpen, socketLimit, closedByUser>>

VARIABLES
    activeChatId,          \* TelegramService.activeChatId: <<>> is null, <<id>> a chat id
    chatFile,              \* data/chat-subscription.json: <<>> when there is no file, <<content>> otherwise
    ops                    \* the TelegramService operations: kind, chat id, where each is suspended

telegramVars == <<activeChatId, chatFile, ops>>

\* the number of /subscribe and /unsubscribe commands of a behaviour
MaxCommands == 2

\* operation 1 is the startup load, the others are command handlers
Ops == 1 .. MaxCommands + 1

IdleOp == [kind |-> "none", chat |-> <<>>, pc |-> "idle"]

\* the monitor and the client on their own: no TelegramService is constructed
NoTelegramService ==
    /\ activeChatId = <<>>
    /\ chatFile = <<>>
    /\ ops = [o \in Ops |-> IdleOp]

vars == <<monitorVars, clientVars, telegramVars>>

Sockets == 1 .. (IF MaxSockets > MaxReconnects THEN MaxSockets ELSE MaxReconnects)

subscriptionQueries == <<"tm.event='Tx'">>

HeartbeatIntervalMs == 20000

HeartbeatTimeoutMs == 60000

BackoffBaseMs == 1000

BackoffMaxMs == 30000

\* the extremes of Math.floor(Math.random() * 250)
Jitters == {0, 249}

ClientFieldsInit ==
    /\ ws = 0
    /\ readyState = [s \in Sockets |-> "NONE"]
    /\ reconnectAttempts = 0
    /\ reconnectTimer = 0
    /\ heartbeatTimer = FALSE
    /\ lastPongAt = 0
    /\ now = 0
    /\ intentionalClose = FALSE
    /\ subscriptionIndex = 0
    /\ subscriptionId = 1
    /\ subscriptionConfirmed = FALSE
    /\ sent = <<>>
    /\ pings = 0
    /\ delivered = <<>>
    /\ errorsReported = 0
    /\ received = <<>>
    /\ opened = {}
    /\ scheduledSinceOpen = 0
    /\ closedByUser = FALSE

ClientInit == ClientFieldsInit /\ socketLimit = MaxSockets

\* the scenario of a redelivered frame (SpecRedelivery) takes one frame more
Invocations == 1 .. MaxFrames + 1

\* an invocation that has not started; pc is where it is suspended
IdleInv == [pc |-> "idle", buckets |-> <<>>, gi |-> 0, ti |-> 0, txContext |-> <<>>, attempt |-> 0, sleeps |-> 0]

\* an invocation that has returned
DoneInv == [IdleInv EXCEPT !.pc = "done"]

\* the group and the transfer an invocation is at
GroupOf(iv) == iv.buckets[iv.gi]

TransferOf(iv) == GroupOf(iv).transfers[iv.ti]

CacheHas(cache, txHash) == \E e \in cache : e.txHash = txHash

CacheGet(cache, txHash) == (CHOOSE e \in cache : e.txHash = txHash).context

CacheSet(cache, txHash, context) == {e \in cache : e.txHash # txHash} \cup {[txHash |-> txHash, context |-> context]}

\* history: the marks of other hashes since a frame that processed txHash returned
OthersSince(txHash) == Cardinality({k \in DOMAIN markLog : k > completedAt[txHash] /\ markLog[k].txHash # txHash})

\* history: a frame arriving now comes after a completed frame for txHash and
\* fewer than maxSeenTxHashes marks of other hashes
FrameIsLate(txHash) == completedAt[txHash] >= 0 /\ OthersSince(txHash) < maxSeenTxHashes

MonitorInit ==
    /\ maxSeenTxHashes \in 0 .. MaxCap
    /\ seenTxHashes = {}
    /\ txOrder = <<>>
    /\ txContextCache = {}
    /\ nonEventMessageCount = 0
    /\ inv = [i \in Invocations |-> IdleInv]
    /\ nframes = 0
    /\ notifierCalls = {}
    /\ markLog = <<>>
    /\ completedAt = [h \in AllHashes |-> -1]
    /\ evicted = {}
    /\ ctxOutcome = {}
    /\ extraction = [i \in Invocations |-> <<>>]
    /\ alertsSent = 0

\* the monitor as invocation i sees and changes it while it runs
Machine(i) == [iv |-> inv[i], seen |-> seenTxHashes, order |-> txOrder, cache |-> txContextCache, count |-> nonEventMessageCount, calls |-> notifierCalls, alerts |-> alertsSent, log |-> markLog, evicted |-> evicted, outcomes |-> ctxOutcome]

\* logNonEventMessage: RPC errors and subscription acks are logged, any other
\* payload is counted
logNonEventMessage(count, payload) == IF payload.shape \in {"rpcError", "ack"} THEN count ELSE count + 1

\* history: record the outcome of the first completed lookup of a hash
FirstOutcome(outcomes, txHash, context) == IF \E o \in outcomes : o.txHash = txHash THEN outcomes ELSE outcomes \cup {[txHash |-> txHash, context |-> context]}

(***************************************************************************)
(* getTxContext.                                                           *)
(***************************************************************************)
\* getTxContext returns context to handleRawMessage, which goes on to the
\* transfers of the group; the locals of getTxContext are gone
LookupReturns(m, context) ==
    [m EXCEPT !.iv.pc = "transfers", !.iv.ti = 1, !.iv.txContext = context, !.iv.attempt = 0, !.iv.sleeps = 0,
              !.outcomes = FirstOutcome(@, GroupOf(m.iv).txHash, context)]

\* the call of getTxContext for the group: a cache hit returns the cached
\* context, a miss issues HTTP attempt 1 and suspends
getTxContext(m) ==
    LET txHash == GroupOf(m.iv).txHash
    IN  IF CacheHas(m.cache, txHash)
        THEN LookupReturns(m, CacheGet(m.cache, txHash))
        ELSE [m EXCEPT !.iv.pc = "fetch", !.iv.attempt = 1, !.iv.sleeps = 0]

\* the retry loop sleeping after every attempt and running while attempt <= 4
EndOfAttemptSleepsAfterLast(m) == IF m.iv.attempt < 4 THEN [m EXCEPT !.iv.pc = "sleep"] ELSE LookupReturns(m, <<>>)

\* the end of a loop iteration that did not return: the 1200 ms delay after
\* attempts 1 and 2, return null after attempt 3
EndOfAttempt(m) == IF m.iv.attempt < 3 THEN [m EXCEPT !.iv.pc = "sleep"] ELSE LookupReturns(m, <<>>)

\* response.ok, context extracted from the body: a context is cached and
\* returned; without one nothing is cached and the loop goes on
ResponseOk(m, context) ==
    IF context # <<>>
    THEN LookupReturns([m EXCEPT !.cache = CacheSet(@, GroupOf(m.iv).txHash, context)], context)
    ELSE EndOfAttempt(m)

\* a response whose status is not a success
ResponseNotOk(m) == EndOfAttempt(m)

\* the fetch promise rejects, or response.json() does: the catch block
FetchThrows(m) == EndOfAttempt(m)

\* the delay is over: the next attempt is issued
NextAttempt(m) == [m EXCEPT !.iv.pc = "fetch", !.iv.attempt = @ + 1, !.iv.sleeps = @ + 1]

(***************************************************************************)
(* The group loop of handleRawMessage and sendAlert.                       *)
(***************************************************************************)
senderMatch(t) == t.sender \in monitoredWallets

recipientMatch(t) == t.recipient \in monitoredWallets

\* the three filters of the group loop
PassesFilters(t) ==
    /\ senderMatch(t) \/ recipientMatch(t)
    /\ t.denom = uzig
    /\ t.amountUzig >= minAmountUzig

\* the event type without its default: txContext?.eventType || null
AlertEventTypeNoDefault(txContext) == IF txContext = <<>> THEN <<>> ELSE txContext[1].eventType

\* txContext?.eventType || "wasm"
AlertEventType(txContext) == IF txContext = <<>> THEN wasm ELSE OrElse(txContext[1].eventType, wasm)

\* txContext?.contractAddress || transfer.recipient
AlertContractAddress(txContext, t) == IF txContext = <<>> THEN t.recipient ELSE OrElse(txContext[1].contractAddress, t.recipient)

\* txContext?.action || null
AlertAction(txContext) == IF txContext = <<>> THEN <<>> ELSE txContext[1].action

\* the record sendAlert passes to notifier.sendLargeTransferAlert; inv, gi, ti
\* and late are history
Alert(i, iv, wallet, direction) ==
    LET t == TransferOf(iv)
    IN  [wallet |-> wallet, direction |-> direction, amountZig |-> formatZigAmount(t.amountUzig),
         amountUzig |-> t.amountUzig, denom |-> t.denom,
         txHash |-> t.txhash, sender |-> t.sender, recipient |-> t.recipient,
         eventType |-> AlertEventType(iv.txContext),
         contractAddress |-> AlertContractAddress(iv.txContext, t),
         action |-> AlertAction(iv.txContext),
         inv |-> i, gi |-> iv.gi, ti |-> iv.ti, late |-> GroupOf(iv).late]

\* sendAlert calls the notifier and suspends at nextPc
sendAlert(i, m, wallet, direction, nextPc) == [m EXCEPT !.calls = @ \cup {Alert(i, m.iv, wallet, direction)}, !.alerts = @ + 1, !.iv.pc = nextPc]

\* one iteration of the loop over the transfers of the group
ProcessTransfer(i, m) ==
    LET t == TransferOf(m.iv)
    IN  IF ~PassesFilters(t) THEN [m EXCEPT !.iv.ti = @ + 1]
        ELSE IF senderMatch(t) THEN sendAlert(i, m, t.sender, "Sent", "awaitSent")
        ELSE sendAlert(i, m, t.recipient, "Received", "awaitReceived")

\* the group loop without its second alert: the next transfer after "Sent"
AfterSentSkipsReceived(i, m) == [m EXCEPT !.iv.pc = "transfers", !.iv.ti = @ + 1]

\* after the "Sent" alert: the "Received" alert when the recipient is watched,
\* the next transfer otherwise
AfterSent(i, m) ==
    LET t == TransferOf(m.iv)
    IN  IF recipientMatch(t)
        THEN sendAlert(i, m, t.recipient, "Received", "awaitReceived")
        ELSE [m EXCEPT !.iv.pc = "transfers", !.iv.ti = @ + 1]

\* after the "Received" alert: the next transfer
AfterReceived(m) == [m EXCEPT !.iv.pc = "transfers", !.iv.ti = @ + 1]

\* sendAlert returns to the group loop
SendAlertReturns(i, m) == IF m.iv.pc = "awaitSent" THEN AfterSent(i, m) ELSE AfterReceived(m)

\* the transfers of the group are done: markSeen, then the next group or return
FinishGroup(i, m) ==
    LET txHash == GroupOf(m.iv).txHash
        ledger == markSeen([seen |-> m.seen, order |-> m.order], txHash, maxSeenTxHashes)
    IN  [m EXCEPT !.seen = ledger.seen,
                  !.order = ledger.order,
                  !.log = Append(@, [inv |-> i, txHash |-> txHash]),
                  !.evicted = IF Len(ledger.order) <= Len(m.order) THEN @ \cup {Head(Append(m.order, txHash))} ELSE @,
                  !.iv.pc = IF m.iv.gi < Len(m.iv.buckets) THEN "lookup" ELSE "done",
                  !.iv.gi = IF m.iv.gi < Len(m.iv.buckets) THEN @ + 1 ELSE @,
                  !.iv.txContext = <<>>,
                  !.iv.ti = 0]

RECURSIVE Run(_, _)
\* invocation i, at machine state m, runs on until it suspends or returns
RunFrom(i, m) ==
    IF m.iv.pc = "lookup" THEN Run(i, getTxContext(m))
    ELSE IF m.iv.pc = "transfers" /\ m.iv.ti <= Len(GroupOf(m.iv).transfers) THEN Run(i, ProcessTransfer(i, m))
    ELSE IF m.iv.pc = "transfers" THEN Run(i, FinishGroup(i, m))
    ELSE m

\* the synchronous code of invocation i up to its next suspension (the machine
\* state is evaluated once per step)
Run(i, m) == CHOOSE r \in {RunFrom(i, v) : v \in {m}} : TRUE

\* history: the frames that processed a hash are complete when the invocation returns
CompleteFrame(m) == [h \in AllHashes |-> IF \E k \in DOMAIN m.iv.buckets : m.iv.buckets[k].txHash = h THEN Len(m.log) ELSE completedAt[h]]

\* the state after invocation i has run to m
Commit(i, m) ==
    /\ inv' = [inv EXCEPT ![i] = IF m.iv.pc = "done" THEN DoneInv ELSE m.iv]
    /\ seenTxHashes' = m.seen
    /\ txOrder' = m.order
    /\ txContextCache' = m.cache
    /\ nonEventMessageCount' = m.count
    /\ notifierCalls' = m.calls
    /\ alertsSent' = m.alerts
    /\ markLog' = m.log
    /\ evicted' = m.evicted
    /\ ctxOutcome' = m.outcomes
    /\ completedAt' = IF m.iv.pc = "done" THEN CompleteFrame(m) ELSE completedAt
    /\ UNCHANGED <<maxSeenTxHashes, clientVars, telegramVars>>

\* handleRawMessage from its call to its first suspension: JSON.parse,
\* extraction, bucketing of the normalised transfers whose hash is not in
\* seenTxHashes, then the group loop
StartFrame(m, frame) ==
    LET events == extractTxSendEvents(frame)
        buckets == Bucketize(events, m.seen, <<>>, {h \in AllHashes : FrameIsLate(h)})
    IN  IF ~frame.json THEN [m EXCEPT !.iv.pc = "done"]
        ELSE IF events = <<>> THEN [m EXCEPT !.iv.pc = "done", !.count = logNonEventMessage(@, frame)]
        ELSE IF buckets = <<>> THEN [m EXCEPT !.iv.pc = "done"]
        ELSE [m EXCEPT !.iv.pc = "lookup", !.iv.buckets = buckets, !.iv.gi = 1]

\* the socket client hands a frame to handleRawMessage
HandleRawMessage(i, frame) ==
    /\ i = nframes + 1
    /\ nframes' = i
    /\ extraction' = IF frame.json
                     THEN [extraction EXCEPT ![i] = <<[payload |-> frame, events |-> extractTxSendEvents(frame), buckets |-> StartFrame(Machine(i), frame).iv.buckets]>>]
                     ELSE extraction
    /\ \E m \in {Run(i, StartFrame(Machine(i), frame))} : Commit(i, m)

\* one HTTP attempt of getTxContext ends with a successful response
FetchResponds(i, payload) ==
    /\ inv[i].pc = "fetch"
    /\ \E body \in LcdBodies : body.payload = payload /\ \E m \in {Run(i, ResponseOk(Machine(i), body.context))} : Commit(i, m)
    /\ UNCHANGED <<nframes, extraction>>

\* one HTTP attempt ends with a status that is not a success
FetchRespondsNotOk(i) ==
    /\ inv[i].pc = "fetch"
    /\ \E m \in {Run(i, ResponseNotOk(Machine(i)))} : Commit(i, m)
    /\ UNCHANGED <<nframes, extraction>>

\* one HTTP attempt ends with a rejection: transport error, the 8 s timeout,
\* a body that is not JSON
FetchRejects(i) ==
    /\ inv[i].pc = "fetch"
    /\ \E m \in {Run(i, FetchThrows(Machine(i)))} : Commit(i, m)
    /\ UNCHANGED <<nframes, extraction>>

\* the 1200 ms delay between attempts is over
SleepSettles(i) ==
    /\ inv[i].pc = "sleep"
    /\ \E m \in {Run(i, NextAttempt(Machine(i)))} : Commit(i, m)
    /\ UNCHANGED <<nframes, extraction>>

\* notifier.sendLargeTransferAlert resolves
NotifierResolves(i) ==
    /\ inv[i].pc \in {"awaitSent", "awaitReceived"}
    /\ \E m \in {Run(i, SendAlertReturns(i, Machine(i)))} : Commit(i, m)
    /\ UNCHANGED <<nframes, extraction>>

\* sendAlert without its try/catch: the rejection ends handleRawMessage
SendAlertPropagates(i, m) == [m EXCEPT !.iv.pc = "rejected"]

\* notifier.sendLargeTransferAlert rejects: the catch block of sendAlert logs
\* the error and sendAlert returns
SendAlertCatches(i, m) == SendAlertReturns(i, m)

NotifierRejects(i) ==
    /\ inv[i].pc \in {"awaitSent", "awaitReceived"}
    /\ \E m \in {Run(i, SendAlertCatches(i, Machine(i)))} : Commit(i, m)
    /\ UNCHANGED <<nframes, extraction>>

MonitorNext ==
    \/ \E i \in 1 .. MaxFrames, frame \in Frames : HandleRawMessage(i, frame)
    \/ \E i \in Invocations, payload \in LcdPayloads : FetchResponds(i, payload)
    \/ \E i \in Invocations : FetchRespondsNotOk(i)
    \/ \E i \in Invocations : FetchRejects(i)
    \/ \E i \in Invocations : SleepSettles(i)
    \/ \E i \in Invocations : NotifierResolves(i)
    \/ \E i \in Invocations : NotifierRejects(i)

\* the coordinator alone: the socket client stays as constructed
Init == MonitorInit /\ ClientInit /\ NoTelegramService

\* any frames, any answers of the LCD endpoint and of the notifier
Spec == Init /\ [][MonitorNext]_vars

\* what the event loop and the network guarantee: an HTTP attempt settles (the
\* request carries an 8 s timeout), the retry timer fires, and the notifier's
\* promise settles
MonitorFairness ==
    \A i \in Invocations :
        /\ WF_monitorVars((\E payload \in LcdPayloads : FetchResponds(i, payload)) \/ FetchRespondsNotOk(i) \/ FetchRejects(i))
        /\ WF_monitorVars(SleepSettles(i))
        /\ WF_monitorVars(NotifierResolves(i) \/ NotifierRejects(i))

FairSpec == Init /\ [][MonitorNext]_vars /\ MonitorFairness

\* the frame of the dedup scenario: one transfer of hash H1 from a watched wallet
RedeliveredFrame == Frame("other", <<TxSend(WalletA, WalletB, Amount50, H1)>>)

RedeliveryNext ==
    \/ \E i \in Invocations : HandleRawMessage(i, RedeliveredFrame)
    \/ \E i \in Invocations, payload \in LcdPayloads : FetchResponds(i, payload)
    \/ \E i \in Invocations : FetchRespondsNotOk(i)
    \/ \E i \in Invocations : FetchRejects(i)
    \/ \E i \in Invocations : SleepSettles(i)
    \/ \E i \in Invocations : NotifierResolves(i)
    \/ \E i \in Invocations : NotifierRejects(i)

\* scenario: the node delivers the same frame again and again
SpecRedelivery == Init /\ [][RedeliveryNext]_vars

LcdDownNext ==
    \/ \E i \in 1 .. MaxFrames, frame \in Frames : HandleRawMessage(i, frame)
    \/ \E i \in Invocations : FetchRespondsNotOk(i)
    \/ \E i \in Invocations : SleepSettles(i)
    \/ \E i \in Invocations : NotifierResolves(i)
    \/ \E i \in Invocations : NotifierRejects(i)

\* scenario: the enrichment endpoint answers every request with HTTP 500
SpecLcdDown == Init /\ [][LcdDownNext]_vars


NotifierDownNext ==
    \/ \E i \in 1 .. MaxFrames, frame \in Frames : HandleRawMessage(i, frame)
    \/ \E i \in Invocations, payload \in LcdPayloads : FetchResponds(i, payload)
    \/ \E i \in Invocations : FetchRespondsNotOk(i)
    \/ \E i \in Invocations : FetchRejects(i)
    \/ \E i \in Invocations : SleepSettles(i)
    \/ \E i \in Invocations : NotifierRejects(i)

\* scenario: the notifier fails every alert it is given
SpecNotifierDown == Init /\ [][NotifierDownNext]_vars

ExtractNext ==
    \/ \E frame \in ExtractFrames : HandleRawMessage(1, frame)
    \/ \E i \in Invocations, payload \in LcdPayloads : FetchResponds(i, payload)
    \/ \E i \in Invocations : FetchRespondsNotOk(i)
    \/ \E i \in Invocations : FetchRejects(i)
    \/ \E i \in Invocations : SleepSettles(i)
    \/ \E i \in Invocations : NotifierResolves(i)
    \/ \E i \in Invocations : NotifierRejects(i)

\* scenario: the node sends a single frame, of any shape the extraction
\* strategies read
SpecExtract == Init /\ [][ExtractNext]_vars

(***************************************************************************)
(* The socket client (websocket.ts): ZigWebSocketClient.                   *)
(***************************************************************************)
\* the fields of the client, read and changed by its methods and handlers
Client ==
    [ws |-> ws, readyState |-> readyState, reconnectAttempts |-> reconnectAttempts,
     reconnectTimer |-> reconnectTimer, heartbeatTimer |-> heartbeatTimer, lastPongAt |-> lastPongAt,
     now |-> now, intentionalClose |-> intentionalClose, subscriptionIndex |-> subscriptionIndex,
     subscriptionId |-> subscriptionId, subscriptionConfirmed |-> subscriptionConfirmed,
     sent |-> sent, pings |-> pings, delivered |-> delivered, errorsReported |-> errorsReported,
     received |-> received, opened |-> opened, scheduledSinceOpen |-> scheduledSinceOpen]

\* the number of sockets created so far
SocketCountOf(rs) == Cardinality({s \in Sockets : rs[s] # "NONE"})

SocketCount == SocketCountOf(readyState)

\* the close event of the socket has not been emitted yet
Alive(state) == state \in {"CONNECTING", "OPEN", "CLOSING"}

\* WebSocket.close() and WebSocket.terminate(): the socket is closing until
\* its close event
ClosingState(state) == IF state \in {"CONNECTING", "OPEN"} THEN "CLOSING" ELSE state

clearReconnectTimer(c) == [c EXCEPT !.reconnectTimer = 0]

\* close() without clearReconnectTimer
closeKeepsTimer(c) ==
    LET d == [c EXCEPT !.intentionalClose = TRUE, !.heartbeatTimer = FALSE]
    IN  IF c.ws # 0 THEN [d EXCEPT !.readyState[c.ws] = ClosingState(@), !.ws = 0] ELSE d

stopHeartbeat(c) == [c EXCEPT !.heartbeatTimer = FALSE]

startHeartbeat(c) == [stopHeartbeat(c) EXCEPT !.heartbeatTimer = TRUE]

connect(c) ==
    LET s == SocketCountOf(c.readyState) + 1
    IN  [clearReconnectTimer([c EXCEPT !.intentionalClose = FALSE]) EXCEPT !.ws = s, !.readyState[s] = "CONNECTING"]

close(c) ==
    LET d == stopHeartbeat(clearReconnectTimer([c EXCEPT !.intentionalClose = TRUE]))
    IN  IF c.ws # 0 THEN [d EXCEPT !.readyState[c.ws] = ClosingState(@), !.ws = 0] ELSE d

\* subscribeCurrentQuery sending the current id again, without the increment
subscribeKeepsId(c) ==
    IF c.ws = 0 \/ c.readyState[c.ws] # "OPEN" THEN c
    ELSE [c EXCEPT !.sent = Append(@, [socket |-> c.ws, id |-> c.subscriptionId, query |-> subscriptionQueries[c.subscriptionIndex + 1]])]

subscribeCurrentQuery(c) ==
    IF c.ws = 0 \/ c.readyState[c.ws] # "OPEN" THEN c
    ELSE [c EXCEPT !.subscriptionId = @ + 1,
                   !.sent = Append(@, [socket |-> c.ws, id |-> c.subscriptionId + 1, query |-> subscriptionQueries[c.subscriptionIndex + 1]])]

\* calculateBackoffMs with the jitter taken off the backoff
calculateBackoffMsJitterBelow(attempt, jitter) ==
    LET grown == BackoffBaseMs * 2 ^ attempt
    IN  (IF grown < BackoffMaxMs THEN grown ELSE BackoffMaxMs) - jitter

calculateBackoffMs(attempt, jitter) ==
    LET grown == BackoffBaseMs * 2 ^ attempt
    IN  (IF grown < BackoffMaxMs THEN grown ELSE BackoffMaxMs) + jitter

\* scheduleReconnect incrementing the counter before it computes the delay
scheduleReconnectCountsFirst(c, jitter) ==
    [clearReconnectTimer(c) EXCEPT !.reconnectTimer = calculateBackoffMs(c.reconnectAttempts + 1, jitter),
                                   !.reconnectAttempts = @ + 1]

scheduleReconnect(c, jitter) ==
    [clearReconnectTimer(c) EXCEPT !.reconnectTimer = calculateBackoffMs(c.reconnectAttempts, jitter),
                                   !.reconnectAttempts = @ + 1]

\* the "open" handler of socket s
onOpen(c, s) ==
    startHeartbeat(subscribeCurrentQuery(
        [c EXCEPT !.readyState[s] = "OPEN", !.reconnectAttempts = 0, !.lastPongAt = c.now,
                  !.subscriptionIndex = 0, !.subscriptionConfirmed = FALSE]))

\* a frame as the client reads it: json, a JSON object or not, the id (<<>>
\* when it is absent or not a number), whether error and result are truthy
Raw(json, object, id, error, result) == [json |-> json, object |-> object, id |-> id, error |-> error, result |-> result]

\* the frames a socket may receive, relative to the current subscriptionId
RawFrames(id) ==
    {Raw(FALSE, FALSE, <<>>, FALSE, FALSE), Raw(TRUE, FALSE, <<>>, FALSE, FALSE)} \cup
    {Raw(TRUE, TRUE, <<id>>, er[1], er[2]) : er \in {<<TRUE, FALSE>>, <<FALSE, TRUE>>, <<FALSE, FALSE>>}} \cup
    {Raw(TRUE, TRUE, <<id - 1>>, TRUE, FALSE), Raw(TRUE, TRUE, <<id - 1>>, FALSE, TRUE), Raw(TRUE, TRUE, <<>>, FALSE, TRUE)}

\* handleSubscriptionResponse subscribing again when the last query is
\* rejected
handleSubscriptionResponseRetriesLast(c, raw) ==
    IF ~raw.json \/ ~raw.object THEN c
    ELSE IF raw.id # <<c.subscriptionId>> THEN c
    ELSE IF raw.error /\ c.subscriptionIndex < Len(subscriptionQueries) - 1
         THEN subscribeCurrentQuery([c EXCEPT !.subscriptionIndex = @ + 1, !.subscriptionConfirmed = FALSE])
    ELSE IF raw.error THEN subscribeCurrentQuery([c EXCEPT !.subscriptionConfirmed = FALSE])
    ELSE IF raw.result /\ ~c.subscriptionConfirmed THEN [c EXCEPT !.subscriptionConfirmed = TRUE]
    ELSE c

handleSubscriptionResponse(c, raw) ==
    IF ~raw.json \/ ~raw.object THEN c
    ELSE IF raw.id # <<c.subscriptionId>> THEN c
    ELSE IF raw.error /\ c.subscriptionIndex < Len(subscriptionQueries) - 1
         THEN subscribeCurrentQuery([c EXCEPT !.subscriptionIndex = @ + 1, !.subscriptionConfirmed = FALSE])
    ELSE IF raw.result /\ ~c.subscriptionConfirmed THEN [c EXCEPT !.subscriptionConfirmed = TRUE]
    ELSE c

\* a message handler that keeps the frames the subscription layer acted on
onMessageSwallowsResponses(c, raw) ==
    IF handleSubscriptionResponse(c, raw) # c THEN handleSubscriptionResponse(c, raw)
    ELSE [c EXCEPT !.delivered = Append(@, raw)]

\* the "message" handler
onMessage(c, raw) == [handleSubscriptionResponse(c, raw) EXCEPT !.delivered = Append(@, raw)]

\* a close handler with the test of intentionalClose inverted
onCloseInvertedTest(c, s, jitter) ==
    LET d == [stopHeartbeat(c) EXCEPT !.readyState[s] = "CLOSED", !.ws = 0]
    IN  IF c.intentionalClose THEN scheduleReconnect(d, jitter) ELSE d

\* a close handler that leaves the heartbeat interval running
onCloseKeepsHeartbeat(c, s, jitter) ==
    LET d == [c EXCEPT !.readyState[s] = "CLOSED", !.ws = 0]
    IN  IF ~c.intentionalClose THEN scheduleReconnect(d, jitter) ELSE d

\* the "close" handler of socket s
onClose(c, s, jitter) ==
    LET d == [stopHeartbeat(c) EXCEPT !.readyState[s] = "CLOSED", !.ws = 0]
    IN  IF ~c.intentionalClose THEN scheduleReconnect(d, jitter) ELSE d

\* an error handler that also schedules a reconnect
onErrorSchedulesReconnect(c) == scheduleReconnect([c EXCEPT !.errorsReported = @ + 1], 0)

\* the "error" handler
onError(c) == [c EXCEPT !.errorsReported = @ + 1]

\* the "pong" handler
onPong(c) == [c EXCEPT !.lastPongAt = c.now]

\* the heartbeat callback with the staleness test at the threshold: >= 60000
heartbeatTickStaleAtThreshold(c) ==
    LET d == [c EXCEPT !.now = @ + HeartbeatIntervalMs]
    IN  IF d.ws = 0 \/ d.readyState[d.ws] # "OPEN" THEN d
        ELSE IF d.now - d.lastPongAt >= HeartbeatTimeoutMs THEN [d EXCEPT !.readyState[d.ws] = ClosingState(@)]
        ELSE [d EXCEPT !.pings = @ + 1]

\* the callback of the heartbeat interval, one period later
heartbeatTick(c) ==
    LET d == [c EXCEPT !.now = @ + HeartbeatIntervalMs]
    IN  IF d.ws = 0 \/ d.readyState[d.ws] # "OPEN" THEN d
        ELSE IF d.now - d.lastPongAt > HeartbeatTimeoutMs THEN [d EXCEPT !.readyState[d.ws] = ClosingState(@)]
        ELSE [d EXCEPT !.pings = @ + 1]

\* the state after a method or handler has run to c
CommitClient(c) ==
    /\ ws' = c.ws
    /\ readyState' = c.readyState
    /\ reconnectAttempts' = c.reconnectAttempts
    /\ reconnectTimer' = c.reconnectTimer
    /\ heartbeatTimer' = c.heartbeatTimer
    /\ lastPongAt' = c.lastPongAt
    /\ now' = c.now
    /\ intentionalClose' = c.intentionalClose
    /\ subscriptionIndex' = c.subscriptionIndex
    /\ subscriptionId' = c.subscriptionId
    /\ subscriptionConfirmed' = c.subscriptionConfirmed
    /\ sent' = c.sent
    /\ pings' = c.pings
    /\ delivered' = c.delivered
    /\ errorsReported' = c.errorsReported
    /\ received' = c.received
    /\ opened' = c.opened
    /\ scheduledSinceOpen' = c.scheduledSinceOpen
    /\ UNCHANGED socketLimit
    /\ UNCHANGED <<monitorVars, telegramVars>>

\* the application calls connect()
Connect ==
    /\ SocketCount < socketLimit
    /\ \E c \in {connect(Client)} : CommitClient(c)
    /\ closedByUser' = FALSE

\* the application calls close()
Close ==
    /\ \E c \in {close(Client)} : CommitClient(c)
    /\ closedByUser' = TRUE

\* the reconnect timeout fires: its callback calls connect()
ReconnectTimerFires ==
    /\ reconnectTimer # 0
    /\ SocketCount < socketLimit
    /\ \E c \in {connect(Client)} : CommitClient(c)
    /\ UNCHANGED closedByUser

\* socket s emits "open"
SocketOpens(s) ==
    /\ readyState[s] = "CONNECTING"
    /\ \E c \in {onOpen([Client EXCEPT !.opened = @ \cup {s}, !.scheduledSinceOpen = 0], s)} : CommitClient(c)
    /\ UNCHANGED closedByUser

\* socket s emits "message"
SocketMessage(s, raw) ==
    /\ readyState[s] \in {"OPEN", "CLOSING"}
    /\ Len(delivered) < MaxMessages
    /\ \E c \in {onMessage([Client EXCEPT !.received = Append(@, raw)], raw)} : CommitClient(c)
    /\ UNCHANGED closedByUser

\* socket s emits "close": the peer or the network ended the connection, the
\* handshake failed, or close() or terminate() was called on it
SocketCloses(s, jitter) ==
    /\ Alive(readyState[s])
    /\ \E c \in {onClose([Client EXCEPT !.scheduledSinceOpen = IF intentionalClose THEN @ ELSE @ + 1], s, jitter)} : CommitClient(c)
    /\ UNCHANGED closedByUser

\* socket s emits "error"
SocketError(s) ==
    /\ Alive(readyState[s])
    /\ errorsReported < MaxErrors
    /\ \E c \in {onError(Client)} : CommitClient(c)
    /\ UNCHANGED closedByUser

\* socket s emits "pong"
SocketPong(s) ==
    /\ readyState[s] \in {"OPEN", "CLOSING"}
    /\ \E c \in {onPong(Client)} : CommitClient(c)
    /\ UNCHANGED closedByUser

\* the heartbeat interval fires
HeartbeatTick ==
    /\ heartbeatTimer
    /\ now < MaxTicks * HeartbeatIntervalMs
    /\ \E c \in {heartbeatTick(Client)} : CommitClient(c)
    /\ UNCHANGED closedByUser

ClientNext ==
    \/ Connect
    \/ Close
    \/ ReconnectTimerFires
    \/ \E s \in Sockets : SocketOpens(s)
    \/ \E s \in Sockets, raw \in RawFrames(subscriptionId) : SocketMessage(s, raw)
    \/ \E s \in Sockets, jitter \in Jitters : SocketCloses(s, jitter)
    \/ \E s \in Sockets : SocketError(s)
    \/ \E s \in Sockets : SocketPong(s)
    \/ HeartbeatTick

ClientOnlyInit == MonitorInit /\ maxSeenTxHashes = MaxCap /\ ClientInit /\ NoTelegramService

\* the socket client alone: the application calls connect() and close() at
\* any time, the sockets emit their events in any order
SpecClient == ClientOnlyInit /\ [][ClientNext]_vars

BackoffNext ==
    \/ SocketCount = 0 /\ Connect
    \/ Close
    \/ ReconnectTimerFires
    \/ \E s \in Sockets : SocketOpens(s)
    \/ \E s \in Sockets, jitter \in Jitters : SocketCloses(s, jitter)

BackoffInit == MonitorInit /\ maxSeenTxHashes = MaxCap /\ ClientFieldsInit /\ socketLimit = MaxReconnects /\ NoTelegramService

\* scenario: the client as main() uses it, connect() called once at the start;
\* connection attempts may fail again and again; no frames, no heartbeat
\* period passes
SpecBackoff == BackoffInit /\ [][BackoffNext]_vars

ReconnectNext ==
    \/ BackoffNext
    \/ \E s \in Sockets : SocketPong(s)
    \/ HeartbeatTick

\* the timeout set by scheduleReconnect fires once its delay has passed
ClientFairness == WF_vars(ReconnectTimerFires)

\* scenario: the client as main() uses it, with failing connection attempts
\* and heartbeat periods passing without a pong
FairSpecReconnect == BackoffInit /\ [][ReconnectNext]_vars /\ ClientFairness

(***************************************************************************)
(* Properties of the ingestion coordinator.                                *)
(***************************************************************************)
N == maxSeenTxHashes

\* the hashes of the markSeen calls, in order
MarkedHashes == [k \in DOMAIN markLog |-> markLog[k].txHash]

Distinct(s) == \A j, k \in DOMAIN s : j # k => s[j] # s[k]

LastN(s, n) == SubSeq(s, Len(s) - n + 1, Len(s))

\* invocation i is suspended in the lookup or the alerts of a group
InGroup(i) == inv[i].pc \in {"fetch", "sleep", "awaitSent", "awaitReceived"}

\* C1: the transfers of one transaction hash that has not been evicted from the
\* ledger are dispatched to the notifier by at most one handleRawMessage
\* invocation, whatever the interleaving of the invocations.
C1_OneInvocationPerHash ==
    N >= 1 => \A a, b \in notifierCalls : (a.txHash = b.txHash /\ a.txHash \notin evicted) => a.inv = b.inv

\* C2: once handleRawMessage has returned for a frame whose hash H it processed,
\* and fewer than maxSeenTxHashes other hashes have been marked since, a frame
\* carrying H that arrives later produces no notifier call. (late is set at the
\* arrival of the frame, from completedAt and markLog.)
C2_RedeliveryIsSilent == \A c \in notifierCalls : ~c.late

\* C3: in every reachable state a hash is in seenTxHashes if and only if it
\* occurs in txOrder.
C3_SetMirrorsOrder == seenTxHashes = Range(txOrder)

\* C4: after every markSeen call, for every capacity maxSeenTxHashes >= 0, txOrder
\* and seenTxHashes hold at most maxSeenTxHashes entries.
C4_LedgerBounded == Len(txOrder) <= N /\ Cardinality(seenTxHashes) <= N

\* an evicting markSeen call has happened and the ledger is full
C4_Witness == N >= 1 /\ Len(markLog) > N /\ Len(txOrder) = N /\ Cardinality(seenTxHashes) = N

Started(i, h) == InGroup(i) /\ GroupOf(inv[i]).txHash = h

Marked(i, h) == \E k \in DOMAIN markLog : markLog[k] = [inv |-> i, txHash |-> h]

\* C6: every hash group handleRawMessage starts on is eventually marked seen by
\* that invocation (markSeen is called for it), whether or not a transfer passed
\* the filters, whatever the lookup attempts end in and whether the notifier
\* resolves or rejects.
C6_GroupEventuallyMarked == \A i \in Invocations, h \in AllHashes : Started(i, h) ~> Marked(i, h)

\* a group has been marked although none of its transfers was dispatched
C6_Witness == \E k \in DOMAIN markLog : \A c \in notifierCalls : c.inv # markLog[k].inv \/ c.txHash # markLog[k].txHash

\* in this step invocation i, starting a getTxContext call, issues its first HTTP attempt
IssuesFirstAttempt(i) == inv[i] # inv'[i] /\ inv'[i].pc = "fetch" /\ inv'[i].attempt = 1

\* C7: once a getTxContext call for a hash has completed, with a context or with
\* null, a later getTxContext call for that hash issues no HTTP request (and
\* returns the memoized outcome).
C7_LaterLookupIsMemoized ==
    [][\A i \in Invocations : IssuesFirstAttempt(i) => ~\E o \in ctxOutcome : o.txHash = GroupOf(inv'[i]).txHash]_monitorVars

\* C8: a getTxContext call on a cache miss issues at most 3 HTTP attempts, waits
\* the delay only between two attempts, never after the last, and ends by
\* returning a context or null to handleRawMessage: it never rejects.
C8_LookupBounded ==
    \A i \in Invocations :
        /\ inv[i].pc \in {"idle", "fetch", "sleep", "awaitSent", "awaitReceived", "done"}
        /\ inv[i].attempt <= 3
        /\ inv[i].pc = "fetch" => inv[i].attempt >= 1 /\ inv[i].sleeps = inv[i].attempt - 1
        /\ inv[i].pc = "sleep" => inv[i].attempt \in {1, 2} /\ inv[i].sleeps = inv[i].attempt - 1
        /\ inv[i].pc \in {"awaitSent", "awaitReceived"} =>
               inv[i].txContext = <<>> \/ (Len(inv[i].txContext) = 1 /\ inv[i].txContext[1].eventType = wasm)

\* the third attempt is in flight, after two delays
C8_Witness == \E i \in Invocations : inv[i].pc = "fetch" /\ inv[i].attempt = 3 /\ inv[i].sleeps = 2

\* the alert of transfer k of the current group of invocation i, for one side
Dispatched(i, k, direction) ==
    \E c \in notifierCalls :
        /\ c.inv = i /\ c.gi = inv[i].gi /\ c.ti = k /\ c.direction = direction
        /\ c.eventType = wasm
        /\ c.txHash = GroupOf(inv[i]).txHash

\* C9: when the LCD endpoint answers HTTP 500 to all 3 attempts, the lookup
\* resolves to null and the alerts of every transfer that passes the filters are
\* still dispatched, with eventType "wasm". (Stated for the behaviours in which
\* every attempt is answered with HTTP 500.)
C9_AlertWithoutContext ==
    \A i \in Invocations :
        inv[i].pc \in {"awaitSent", "awaitReceived"} =>
            /\ inv[i].txContext = <<>>
            /\ \A k \in 1 .. inv[i].ti :
                   LET t == GroupOf(inv[i]).transfers[k]
                   IN  PassesFilters(t) =>
                           /\ senderMatch(t) => Dispatched(i, k, "Sent")
                           /\ (recipientMatch(t) /\ (k < inv[i].ti \/ inv[i].pc = "awaitReceived")) => Dispatched(i, k, "Received")
            /\ \A c \in notifierCalls : c.eventType = wasm /\ c.contractAddress = c.recipient /\ c.action = <<>>

\* an alert has been dispatched after three failed attempts
C9_Witness == \E i \in Invocations : inv[i].pc = "awaitSent" /\ Dispatched(i, inv[i].ti, "Sent") /\ txContextCache = {}

(***************************************************************************)
(* Properties of the socket client.                                        *)
(***************************************************************************)
\* C10: from a call of close() until the next call of connect(), whatever the
\* sockets emit, no reconnect timer is pending and no socket is created.
C10_ClosedStaysClosed ==
    /\ [](closedByUser => reconnectTimer = 0)
    /\ [][(closedByUser /\ closedByUser') => SocketCount' = SocketCount]_vars

\* close() was called while the socket was open, and the socket has since
\* emitted its close event
C10_Witness == closedByUser /\ intentionalClose /\ sent # <<>> /\ \A s \in Sockets : ~Alive(readyState[s])

\* the sockets that are connecting or open
LiveSockets == {s \in Sockets : readyState[s] \in {"CONNECTING", "OPEN"}}

\* C11: after any sequence of connect(), close(), reconnect-timer firings and
\* socket events the client has at most one live (connecting or open) socket,
\* and whenever a live socket exists the ws field references it.
C11_OneLiveSocket == Cardinality(LiveSockets) <= 1 /\ \A s \in LiveSockets : ws = s

\* C12: the id of every subscribe request the client sends is strictly greater
\* than the id of every subscribe request it sent before, across reconnects.
C12_IdsIncrease == \A j, k \in DOMAIN sent : j < k => sent[j].id < sent[k].id

\* two subscribe requests have been sent, on two sockets
C12_Witness == Len(sent) >= 2 /\ sent[1].socket # sent[2].socket

\* C13: every frame received on a socket is handed to the onMessage observer
\* exactly once, unchanged and in arrival order, whether or not the
\* subscription layer acted on it.
C13_FramesDelivered == delivered = received

\* two frames have arrived, the first a matching acknowledgement that confirmed
\* the subscription, the second a frame that is not JSON
C13_Witness == Len(received) = 2 /\ received[1].result /\ subscriptionConfirmed /\ ~received[2].json

\* socket s emits "open" in this step, its close event is handled in this step
OpensNow(s) == readyState[s] = "CONNECTING" /\ readyState'[s] = "OPEN"

ClosesNow(s) == readyState[s] # "CLOSED" /\ readyState'[s] = "CLOSED"

\* C14: the heartbeat timer is active only while a socket that has opened and
\* whose close event has not been handled exists; it is inactive right after a
\* close event is handled and after close() is called, and only an open event
\* activates it.
C14_HeartbeatOnlyWhileOpened ==
    /\ [](heartbeatTimer => \E s \in opened : Alive(readyState[s]))
    /\ [][/\ (\E s \in Sockets : ClosesNow(s)) => ~heartbeatTimer'
          /\ (~closedByUser /\ closedByUser') => ~heartbeatTimer'
          /\ (~heartbeatTimer /\ heartbeatTimer') => \E s \in Sockets : OpensNow(s)]_vars

\* a socket opened, the heartbeat ran (a ping was sent), and its close event
\* has been handled
C14_Witness == ~heartbeatTimer /\ pings > 0 /\ \E s \in opened : readyState[s] = "CLOSED"

\* min(maxDelay, baseDelay * 2^k)
BackoffFloor(k) == IF BackoffBaseMs * 2 ^ k < BackoffMaxMs THEN BackoffBaseMs * 2 ^ k ELSE BackoffMaxMs

\* a reconnect is scheduled in this step
ScheduledNow == scheduledSinceOpen' = scheduledSinceOpen + 1

\* C15: the delay of the k-th consecutive scheduled reconnect since the last
\* open (k = 0, 1, ...) is min(30000, 1000 * 2^k) + j with 0 <= j < 250; the
\* attempt counter grows by exactly one on every scheduled reconnect and is
\* zero right after every open event.
C15_BackoffDelay ==
    /\ [](reconnectAttempts = scheduledSinceOpen)
    /\ [][/\ ScheduledNow => /\ \E j \in 0 .. 249 : reconnectTimer' = BackoffFloor(scheduledSinceOpen) + j
                             /\ reconnectAttempts' = reconnectAttempts + 1
          /\ (\E s \in Sockets : OpensNow(s)) => reconnectAttempts' = 0
          /\ reconnectAttempts' # reconnectAttempts => ScheduledNow \/ \E s \in Sockets : OpensNow(s)]_vars

\* the sixth consecutive reconnect (k = 5) is scheduled at the cap, with the
\* largest jitter
C15_Witness == scheduledSinceOpen = 6 /\ reconnectTimer = BackoffMaxMs + 249

\* C16: every reconnect delay is strictly greater than the jitter-free floor
\* min(maxDelay, baseDelay * 2^attempt) of its attempt.
C16_DelayAboveFloor == [][ScheduledNow => reconnectTimer' > BackoffFloor(reconnectAttempts)]_vars

\* C16 as amended: every reconnect delay is at least the jitter-free floor of
\* its attempt.
C16_DelayAtLeastFloor == [][ScheduledNow => reconnectTimer' >= BackoffFloor(reconnectAttempts)]_vars

\* a reconnect is pending whose delay is exactly the floor of its attempt
C16_Witness == reconnectAttempts = 3 /\ reconnectTimer = BackoffFloor(2)

\* the socket the client held has closed, the close was not intentional, and
\* n sockets have been created so far
ClosedUnintentionally(n) == ws = 0 /\ ~intentionalClose /\ SocketCount = n

\* C17: when the timers are scheduled fairly, after a socket closes while the
\* close was not intentional a new socket is eventually created by connect(),
\* unless close() is called first; also after failed connection attempts and
\* after a close forced by the heartbeat staleness test.
C17_ReconnectFollows ==
    \A n \in 1 .. MaxReconnects - 1 : ClosedUnintentionally(n) ~> (SocketCount > n \/ closedByUser)

\* the heartbeat found the socket stale and terminated it, its close event
\* was handled, and a new socket has been created
C17_Witness ==
    /\ \E s \in opened : readyState[s] = "CLOSED"
    /\ now - lastPongAt > HeartbeatTimeoutMs
    /\ ws # 0 /\ readyState[ws] = "CONNECTING"
    /\ ~closedByUser

\* what each strategy finds in a payload, in the order of the cascade
StrategyResults(payload) ==
    <<SelectEvents(payload.items), extractFromCosmosEventStyle(payload), extractFromTendermintEventArray(payload), extractFromMessageBodies(payload)>>

\* C18: what extractTxSendEvents returned for a payload is the result of the
\* first strategy of the cascade (direct scan, mapped-event style,
\* tagged-event-array style, message-body style) that finds something, with
\* nothing of the later strategies in it, and the empty list when none of
\* the four finds anything
C18_FirstNonEmptyStrategy ==
    \A i \in Invocations :
        extraction[i] # <<>> =>
            LET results == StrategyResults(extraction[i][1].payload)
                hits == {k \in DOMAIN results : results[k] # <<>>}
            IN  extraction[i][1].events = IF hits = {} THEN <<>> ELSE results[Min(hits)]

\* a payload in which the direct scan finds nothing and the three other
\* strategies each find transfers has been processed
C18_Witness ==
    \E i \in Invocations :
        /\ extraction[i] # <<>>
        /\ inv[i].pc = "done"
        /\ LET results == StrategyResults(extraction[i][1].payload)
           IN  results[1] = <<>> /\ results[2] # <<>> /\ results[3] # <<>> /\ results[4] # <<>> /\ results[3] # results[2]

\* the (wallet, direction) pairs of the notifier calls made by invocation i
\* for transfer k of its group g
AlertsOf(i, g, k) == {[wallet |-> c.wallet, direction |-> c.direction] : c \in {c \in notifierCalls : c.inv = i /\ c.gi = g /\ c.ti = k}}

\* what the filters and the watchlist ask for a transfer
ExpectedAlerts(t) ==
    IF (t.sender \in monitoredWallets \/ t.recipient \in monitoredWallets) /\ t.denom = uzig /\ t.amountUzig >= minAmountUzig
    THEN {[wallet |-> t.sender, direction |-> "Sent"] : x \in {t.sender} \cap monitoredWallets}
         \cup {[wallet |-> t.recipient, direction |-> "Received"] : x \in {t.recipient} \cap monitoredWallets}
    ELSE {}

\* invocation i is past transfer k of group g: its loop iteration has ended
PastTransfer(i, g, k) ==
    \/ inv[i].pc = "done"
    \/ inv[i].pc \in {"fetch", "sleep", "awaitSent", "awaitReceived"} /\ (g < inv[i].gi \/ (g = inv[i].gi /\ k < inv[i].ti))

\* C19: for every valid transfer of an unseen hash that handleRawMessage is
\* done with, the notifier was called for it exactly when its sender or its
\* recipient is watched, its denom is uzig and its amount is at least the
\* minimum; the calls are then one "Sent" alert for a watched sender and one
\* "Received" alert for a watched recipient, two alerts when both are
\* watched, and no call is made twice
C19_AlertsMatchFilters ==
    /\ Cardinality(notifierCalls) = alertsSent
    /\ \A i \in Invocations :
           extraction[i] # <<>> =>
               LET buckets == extraction[i][1].buckets
               IN  \A g \in DOMAIN buckets : \A k \in DOMAIN buckets[g].transfers :
                       PastTransfer(i, g, k) => AlertsOf(i, g, k) = ExpectedAlerts(buckets[g].transfers[k])

\* an invocation has returned after a group with a transfer between two
\* watched wallets, with its two alerts, and a transfer of another denom,
\* with none
C19_Witness ==
    \E i \in Invocations :
        /\ extraction[i] # <<>>
        /\ inv[i].pc = "done"
        /\ \E g \in DOMAIN extraction[i][1].buckets :
               LET transfers == extraction[i][1].buckets[g].transfers
               IN  /\ \E k \in DOMAIN transfers : Cardinality(AlertsOf(i, g, k)) = 2
                   /\ \E k \in DOMAIN transfers : transfers[k].denom # uzig /\ transfers[k].amountUzig >= minAmountUzig /\ AlertsOf(i, g, k) = {}
                   /\ \E k \in DOMAIN transfers : transfers[k].amountUzig = minAmountUzig /\ Cardinality(AlertsOf(i, g, k)) = 1

\* the notifier calls of invocation i, by wallet, direction and display amount
DisplayedAlerts(i) == {[wallet |-> c.wallet, direction |-> c.direction, amountZig |-> c.amountZig] : c \in {c \in notifierCalls : c.inv = i}}

\* invocation i has processed payload, the only frame so far, and has returned
ProcessedAlone(i, payload) == i = 1 /\ nframes = 1 /\ inv[i].pc = "done" /\ extraction[i] # <<>> /\ extraction[i][1].payload = payload

\* the alert of the scenario: "Sent", for the watched sender, amount "50"
ScenarioAlert == [wallet |-> WalletA, direction |-> "Sent", amountZig |-> <<"5", "0">>]

\* C20 as stated: after the scenario frame alone, with the "tx.hash" array
\* beside "events" under "result", exactly one notifier call has been made:
\* "Sent", wallet A, display amount "50"
C20_ScenarioFrameAlerts ==
    \A i \in Invocations : ProcessedAlone(i, ScenarioFrame) => DisplayedAlerts(i) = {ScenarioAlert} /\ alertsSent = 1

\* C20: after the frame of the scenario with the "tx.hash" array inside
\* "events", processed alone, exactly one notifier call has been made: "Sent",
\* wallet A, display amount "50"
C20_HashInsideEventsAlerts ==
    \A i \in Invocations : ProcessedAlone(i, CosmosFrame) => DisplayedAlerts(i) = {ScenarioAlert} /\ alertsSent = 1

\* the frame with the hash inside "events" has been processed alone
C20_Witness == \E i \in Invocations : ProcessedAlone(i, CosmosFrame) /\ extraction[i][1].events # <<>>

\* the notifier calls of invocation i, by group, transfer and direction
CallKeys(i) == {[gi |-> c.gi, ti |-> c.ti, direction |-> c.direction] : c \in {c \in notifierCalls : c.inv = i}}

\* the calls the group loop owes to the transfers invocation i is past
OwedKeys(i) ==
    LET buckets == extraction[i][1].buckets
    IN  {key \in [gi : DOMAIN buckets, ti : 1 .. Max({0} \cup {Len(buckets[g].transfers) : g \in DOMAIN buckets}), direction : {"Sent", "Received"}] :
            /\ key.ti \in DOMAIN buckets[key.gi].transfers
            /\ PastTransfer(i, key.gi, key.ti)
            /\ \E a \in ExpectedAlerts(buckets[key.gi].transfers[key.ti]) : a.direction = key.direction}

\* the calls made for the transfer invocation i is at
CurrentKeys(i) ==
    IF inv[i].pc \in {"awaitSent", "awaitReceived"} THEN {c \in CallKeys(i) : c.gi = inv[i].gi /\ c.ti = inv[i].ti} ELSE {}

\* C21: while the notifier fails every alert, no failure leaves
\* handleRawMessage (an invocation is waiting or has returned, never
\* rejected), no alert is sent again (every call is a different alert), and
\* the alerts after a failed one are still dispatched: the calls made for
\* the transfers an invocation is past are exactly the ones the filters ask
\* for, in this frame and in the frames after it
C21_NotifierFailureContained ==
    /\ alertsSent = Cardinality(notifierCalls)
    /\ \A i \in Invocations :
           /\ inv[i].pc \in {"idle", "fetch", "sleep", "awaitSent", "awaitReceived", "done"}
           /\ extraction[i] # <<>> => CallKeys(i) \ CurrentKeys(i) = OwedKeys(i)

\* two frames have been processed to their end while every alert failed:
\* the first with two alerts for one transfer, the later one with an alert too
C21_Witness ==
    /\ inv[1].pc = "done" /\ inv[2].pc = "done"
    /\ \E c, d \in CallKeys(1) : c.gi = d.gi /\ c.ti = d.ti /\ c.direction = "Sent" /\ d.direction = "Received"
    /\ CallKeys(2) # {}
    /\ \E k \in DOMAIN markLog : markLog[k].inv = 1 /\ \A j \in DOMAIN markLog : markLog[j].inv = 2 => j > k

\* C22: a successful response without a wasm event ends the getTxContext
\* call at once: after it the invocation neither waits the retry delay nor
\* has a further HTTP attempt for the same group in flight
C22_OkWithoutWasmEndsLookup ==
    [][\A i \in Invocations : \A body \in LcdBodies :
           body.context = <<>> /\ FetchResponds(i, body.payload) =>
               /\ inv'[i].pc # "sleep"
               /\ ~(inv'[i].pc = "fetch" /\ inv'[i].gi = inv[i].gi /\ inv'[i].attempt > inv[i].attempt)]_vars

\* C23: the step that handles the open event of socket s leaves the
\* subscription cursor at 0, the subscription unconfirmed, the reconnect
\* attempt counter at 0 and the heartbeat timer set, and sends exactly one
\* subscribe request, on s, with the first candidate query
C23_OpenResetsAndSubscribes ==
    [][\A s \in Sockets : SocketOpens(s) =>
           /\ subscriptionIndex' = 0
           /\ subscriptionConfirmed' = FALSE
           /\ reconnectAttempts' = 0
           /\ heartbeatTimer'
           /\ Len(sent') = Len(sent) + 1
           /\ sent'[Len(sent')].socket = s
           /\ sent'[Len(sent')].query = subscriptionQueries[1]]_vars

\* no query has been sent twice on one socket, and the cursor is an index of
\* the candidate list
SubscriptionInRange ==
    /\ subscriptionIndex \in 0 .. Len(subscriptionQueries) - 1
    /\ \A j, k \in DOMAIN sent : j # k /\ sent[j].socket = sent[k].socket => sent[j].query # sent[k].query

\* C24: handling a frame whose id is the last sent request id, with an error
\* while the cursor is not at the last candidate, moves the cursor on by one
\* and sends one subscribe request with the next query and a new id; with a
\* result while the subscription is unconfirmed, it confirms the
\* subscription; and after every step no query has been sent twice on one
\* connection and the cursor is within 0 .. (number of queries - 1)
C24_FallbackAndConfirm ==
    [][/\ \A s \in Sockets, raw \in RawFrames(subscriptionId) :
              SocketMessage(s, raw) /\ raw.json /\ raw.object /\ raw.id = <<subscriptionId>> =>
                  /\ raw.error /\ subscriptionIndex < Len(subscriptionQueries) - 1 =>
                         /\ subscriptionIndex' = subscriptionIndex + 1
                         /\ Len(sent') = Len(sent) + 1
                         /\ sent'[Len(sent')].query = subscriptionQueries[subscriptionIndex' + 1]
                         /\ sent'[Len(sent')].id > subscriptionId
                  /\ raw.result /\ ~subscriptionConfirmed /\ ~(raw.error /\ subscriptionIndex < Len(subscriptionQueries) - 1) =>
                         subscriptionConfirmed'
       /\ SubscriptionInRange']_vars

\* C25: a heartbeat tick with the client's socket open terminates the socket
\* and sends no ping when more than 60000 ms have passed since the last pong
\* or open event the client handled, and otherwise sends exactly one ping and
\* leaves the socket open; a tick without an open socket sends no ping and
\* terminates nothing; and 60000 ms is more than two heartbeat intervals
C25_TickPingsOrTerminates ==
    [][HeartbeatTick =>
           /\ HeartbeatTimeoutMs > 2 * HeartbeatIntervalMs
           /\ IF ws # 0 /\ readyState[ws] = "OPEN"
              THEN IF now' - lastPongAt > HeartbeatTimeoutMs
                   THEN pings' = pings /\ readyState'[ws] # "OPEN" /\ \A s \in Sockets \ {ws} : readyState'[s] = readyState[s]
                   ELSE pings' = pings + 1 /\ readyState' = readyState
              ELSE pings' = pings /\ readyState' = readyState]_vars

\* the socket has been terminated by the fourth tick after three pings, and
\* the heartbeat is still running with no open socket
C25_Witness ==
    /\ ws # 0 /\ readyState[ws] = "CLOSING" /\ ~intentionalClose
    /\ pings = 3 /\ now - lastPongAt > HeartbeatTimeoutMs /\ heartbeatTimer

\* the step schedules a reconnect: a timeout is pending after it and the
\* attempt counter has gone up by one
SchedulesReconnect == reconnectTimer' # 0 /\ reconnectAttempts' = reconnectAttempts + 1

\* C26: the step that handles a socket's error event reports it to onError
\* and changes nothing else of the client: no reconnect is scheduled, no
\* timer stopped, the attempt counter kept; and a step schedules a reconnect
\* exactly when it handles a close event while intentionalClose is false
C26_OnlyCloseSchedulesReconnect ==
    [][/\ \A s \in Sockets : SocketError(s) =>
              /\ errorsReported' = errorsReported + 1
              /\ UNCHANGED <<ws, readyState, reconnectAttempts, reconnectTimer, heartbeatTimer, lastPongAt, intentionalClose>>
              /\ UNCHANGED <<subscriptionIndex, subscriptionId, subscriptionConfirmed, sent, pings, delivered>>
       /\ SchedulesReconnect <=> ~intentionalClose /\ \E s \in Sockets, jitter \in Jitters : SocketCloses(s, jitter)]_vars

\* an error has been reported for a socket that then closed: the reconnect
\* of the close is pending, and it is the first
C26_Witness == errorsReported = 1 /\ reconnectTimer # 0 /\ reconnectAttempts = 1 /\ ws = 0 /\ ~intentionalClose

\* the digits of the amount of a candidate: the trimmed amount when it is all
\* digits, what precedes the denom when the amount ends with it (letter case
\* apart), <<>> otherwise
AmountDigits(e) ==
    LET amount == Trim(e.amount)
        denom == ToLowerCase(Trim(e.denom))
        cut == Len(amount) - Len(denom)
    IN  IF AllDigits(amount) THEN amount
        ELSE IF cut >= 1 /\ ToLowerCase(SubSeq(amount, cut + 1, Len(amount))) = denom /\ AllDigits(SubSeq(amount, 1, cut)) THEN SubSeq(amount, 1, cut)
        ELSE <<>>

\* the candidate passes validation
ValidCandidate(e) ==
    /\ Trim(e.sender) # <<>> /\ Trim(e.recipient) # <<>> /\ Trim(e.denom) # <<>> /\ Trim(e.txhash) # <<>>
    /\ AmountDigits(e) # <<>>
    /\ \E k \in DOMAIN AmountDigits(e) : AmountDigits(e)[k] # "0"

\* the valid candidates of hash h among events, in order, with their fields
\* trimmed
ValidOfHash(events, h) ==
    LET Keep(e) == ValidCandidate(e) /\ Trim(e.txhash) = h
        kept == SelectSeq(events, Keep)
    IN  [k \in DOMAIN kept |-> [sender |-> Trim(kept[k].sender), recipient |-> Trim(kept[k].recipient), txhash |-> h]]

\* C27: in a frame processed alone, every transfer given to the filters has
\* non-empty trimmed sender, recipient, denom and txhash and an amount above
\* zero, and the transfers given to the filters are exactly the candidates
\* that pass validation, in their order: a candidate that fails it is left
\* out and the candidates around it are kept
C27_OnlyValidTransfersReachFilters ==
    \A i \in Invocations :
        extraction[i] # <<>> =>
            LET events == extraction[i][1].events
                buckets == extraction[i][1].buckets
            IN  /\ \A g \in DOMAIN buckets : \A k \in DOMAIN buckets[g].transfers :
                       LET t == buckets[g].transfers[k]
                       IN  /\ t.sender # <<>> /\ t.recipient # <<>> /\ t.denom # <<>> /\ t.txhash # <<>>
                           /\ Trim(t.sender) = t.sender /\ Trim(t.recipient) = t.recipient /\ Trim(t.denom) = t.denom /\ Trim(t.txhash) = t.txhash
                           /\ t.amountUzig > 0
                /\ \A g \in DOMAIN buckets :
                       [k \in DOMAIN buckets[g].transfers |->
                           [sender |-> buckets[g].transfers[k].sender, recipient |-> buckets[g].transfers[k].recipient, txhash |-> buckets[g].transfers[k].txhash]]
                       = ValidOfHash(events, buckets[g].txHash)
                /\ \A k \in DOMAIN events : ValidCandidate(events[k]) => \E g \in DOMAIN buckets : buckets[g].txHash = Trim(events[k].txhash)

\* a frame with candidates that fail validation before and after one that
\* passes has been processed: the one that passes has been alerted on
C27_Witness ==
    \E i \in Invocations :
        /\ extraction[i] # <<>> /\ inv[i].pc = "done"
        /\ \E j, k, l \in DOMAIN extraction[i][1].events :
               /\ j < k /\ k < l
               /\ ~ValidCandidate(extraction[i][1].events[j]) /\ ValidCandidate(extraction[i][1].events[k]) /\ ~ValidCandidate(extraction[i][1].events[l])
        /\ \E c \in notifierCalls : c.inv = i

\* C28: while the socket the latest connect() created is open, the heartbeat
\* interval is running, whatever events earlier sockets deliver meanwhile
C28_OpenSocketHasHeartbeat ==
    \A s \in Sockets : s = SocketCount /\ s \in opened /\ readyState[s] = "OPEN" => heartbeatTimer

\* the frame is the node's rejection of the subscribe request sent last, and
\* that request carried the last candidate query
RejectsLastQuery(raw) ==
    /\ raw.json /\ raw.object /\ raw.error
    /\ raw.id = <<subscriptionId>>
    /\ subscriptionIndex = Len(subscriptionQueries) - 1

ConfiguredChatId == <<"7", "0">>

\* String(msg.chat.id) of the chats that send commands
CommandChats == {<<"4", "1">>, <<"-", "4", "2">>}

\* JSON.stringify({ chatId }) as a file content
StoredChatConfig(chatId) == [json |-> TRUE, chatId |-> <<chatId>>]

\* the file before the service starts: none, one written by setChatId, one
\* edited by hand with blanks around the id, one with a blank id, one that is
\* not JSON
StoredFiles ==
    {<<>>, <<StoredChatConfig(<<"4", "1">>)>>, <<StoredChatConfig(<<" ", "9", " ">>)>>, <<StoredChatConfig(<<" ">>)>>,
     <<[json |-> FALSE, chatId |-> <<>>]>>}

\* ChatSubscriptionStore.getChatId on the file as it is when readFile settles
getChatId(file) ==
    IF file = <<>> THEN <<>>
    ELSE IF ~file[1].json THEN <<>>
    ELSE IF file[1].chatId = <<>> \/ Trim(file[1].chatId[1]) = <<>> THEN <<>>
    ELSE <<Trim(file[1].chatId[1])>>

\* ChatSubscriptionStore.setChatId from its call to its first await: the
\* operation is suspended on mkdir, or has thrown on an empty id
setChatId(op, chatId) ==
    IF Trim(chatId) = <<>> THEN [op EXCEPT !.pc = "done"]
    ELSE [op EXCEPT !.chat = chatId, !.pc = "mkdir"]

\* the constructor: activeChatId is the configured id or null, and
\* loadStoredChatId runs to the readFile of getChatId
TelegramServiceInit ==
    /\ activeChatId \in {<<>>, <<ConfiguredChatId>>}
    /\ chatFile \in StoredFiles
    /\ ops = [o \in Ops |-> IF o = 1 THEN [kind |-> "load", chat |-> <<>>, pc |-> "readFile"] ELSE IdleOp]

\* loadStoredChatId resumes with the result of getChatId
ReadFileSettles ==
    /\ ops[1].pc = "readFile"
    /\ LET stored == getChatId(chatFile)
       IN  IF stored # <<>> THEN activeChatId' = stored /\ ops' = [ops EXCEPT ![1].pc = "done"]
           ELSE IF activeChatId # <<>> THEN UNCHANGED activeChatId /\ ops' = [ops EXCEPT ![1] = setChatId(@, activeChatId[1])]
           ELSE UNCHANGED activeChatId /\ ops' = [ops EXCEPT ![1].pc = "done"]
    /\ UNCHANGED <<chatFile, monitorVars, clientVars>>

\* a /subscribe message of chat: handleSubscribeCommand to the mkdir of
\* setChatId
HandleSubscribeCommand(o, chat) ==
    /\ o # 1 /\ ops[o].pc = "idle"
    /\ ops' = [ops EXCEPT ![o] = setChatId([@ EXCEPT !.kind = "subscribe"], chat)]
    /\ UNCHANGED <<activeChatId, chatFile, monitorVars, clientVars>>

\* mkdir settles: setChatId goes on to writeFile
MkdirSettles(o) ==
    /\ ops[o].pc = "mkdir"
    /\ ops' = [ops EXCEPT ![o].pc = "writeFile"]
    /\ UNCHANGED <<activeChatId, chatFile, monitorVars, clientVars>>

\* writeFile settles: the file holds the trimmed id; handleSubscribeCommand
\* sets activeChatId and goes on to sendMessage, loadStoredChatId returns
WriteFileSettles(o) ==
    /\ ops[o].pc = "writeFile"
    /\ chatFile' = <<StoredChatConfig(Trim(ops[o].chat))>>
    /\ IF ops[o].kind = "subscribe"
       THEN activeChatId' = <<ops[o].chat>> /\ ops' = [ops EXCEPT ![o].pc = "sendMessage"]
       ELSE UNCHANGED activeChatId /\ ops' = [ops EXCEPT ![o].pc = "done"]
    /\ UNCHANGED <<monitorVars, clientVars>>

\* an /unsubscribe message: handleUnsubscribeCommand to the unlink of
\* clearChatId
HandleUnsubscribeCommand(o) ==
    /\ o # 1 /\ ops[o].pc = "idle"
    /\ ops' = [ops EXCEPT ![o] = [kind |-> "unsubscribe", chat |-> <<>>, pc |-> "unlink"]]
    /\ UNCHANGED <<activeChatId, chatFile, monitorVars, clientVars>>

\* unlink settles, with the file removed or with the error of a missing file
\* ignored: handleUnsubscribeCommand clears activeChatId and goes on to
\* sendMessage
UnlinkSettles(o) ==
    /\ ops[o].pc = "unlink"
    /\ chatFile' = <<>>
    /\ activeChatId' = <<>>
    /\ ops' = [ops EXCEPT ![o].pc = "sendMessage"]
    /\ UNCHANGED <<monitorVars, clientVars>>

\* the reply of a command handler is sent or fails: the handler returns
SendMessageSettles(o) ==
    /\ ops[o].pc = "sendMessage"
    /\ ops' = [ops EXCEPT ![o].pc = "done"]
    /\ UNCHANGED <<activeChatId, chatFile, monitorVars, clientVars>>

TelegramNext ==
    \/ ReadFileSettles
    \/ \E o \in Ops, chat \in CommandChats : HandleSubscribeCommand(o, chat)
    \/ \E o \in Ops : MkdirSettles(o)
    \/ \E o \in Ops : WriteFileSettles(o)
    \/ \E o \in Ops : HandleUnsubscribeCommand(o)
    \/ \E o \in Ops : UnlinkSettles(o)
    \/ \E o \in Ops : SendMessageSettles(o)

TelegramInit == MonitorInit /\ maxSeenTxHashes = MaxCap /\ ClientInit /\ TelegramServiceInit

\* the TelegramService alone: the startup load and the command handlers
\* interleave at their awaits; the file system carries out every operation
SpecTelegram == TelegramInit /\ [][TelegramNext]_vars

\* no operation of the service is suspended
NoOperationInFlight == \A o \in Ops : ops[o].pc \in {"idle", "done"}

\* C30: when the startup load has returned and no command handler is
\* suspended, activeChatId is the chat id that getChatId reads from the file,
\* or both are absent
C30_ActiveEqualsPersisted ==
    ops[1].pc = "done" /\ NoOperationInFlight => activeChatId = getChatId(chatFile)

=============================================================================
